---- MODULE Spec2Model ----
(***************************************************************************)
(* Model of the request pipeline of guitar-specs:                          *)
(*   - the deadline guard (middleware.Timeout) with its capturing          *)
(*     response writer, wrapped by middleware.Recoverer;                   *)
(*   - the sliding-window rate limiter (middleware.RateLimiter);           *)
(*   - real client IP resolution (middleware.RealIP).                      *)
(* Each component has its own specification (SpecGuard, SpecRate,          *)
(* SpecRealIP); a specification leaves the other components' variables     *)
(* unchanged.                                                              *)
(***************************************************************************)
EXTENDS Integers, Sequences, FiniteSets, TLC

VARIABLES
    \* ---- deadline guard / recoverer ----
    chain,      \* "app": Recoverer -> ... -> Timeout -> handler (app.New);
                \* "direct": Recoverer -> handler (as composed in TestRecoverer)
    alive,      \* the server process is running
    rState,     \* Recoverer's ServeHTTP: "idle" | "active" | "returned"
    gState,     \* deadline guard: "Init" | "Running" | "Completed" | "TimedOut"
    hState,     \* inner handler: "notstarted" | "running" | "returned" | "panicked"
    ctxDone,    \* the derived context's Done channel is closed
    fired,      \* the deadline timer has fired
    parentDone, \* the request's own context has been cancelled
    crw,        \* the capturingResponseWriter
    dst,        \* the real response writer (what the client receives)
    logs,       \* log entries written by Recoverer
    hOps,       \* history: the calls the inner handler has made on its writer
    opsAtSelect,\* history: Len(hOps) when the guard left its select
    hAtSelect,  \* history: hState when the guard left its select
    hAtFire,    \* history: hState when the deadline fired ("none" before)
    \* ---- rate limiter ----
    limit,      \* RateLimiter.limit
    window,     \* RateLimiter.window
    requests,   \* RateLimiter.requests: map from client key to timestamps
    mu,         \* RateLimiter.mu: "free" or the process holding it
    clock,      \* wall clock read by time.Now()
    rlpc,       \* each goroutine in RateLimit: "idle" | "locked" | "pruned"
    rlKey,      \* local `key` of each goroutine
    rlNow,      \* local `now` of each goroutine
    rlPre,      \* history: requests[key] when the goroutine took the lock
    rlLog,      \* history: one record per decided request, in decision order
    nextCalled, \* history: indices of rlLog whose request was passed to next
    \* ---- real IP ----
    trustedProxies, \* the configured proxy strings
    req,        \* two requests: RemoteAddr and proxy headers of each
    origAddr,   \* history: RemoteAddr of each request as received
    origPeer,   \* history: the address literal of the direct peer
    ipDone,     \* which requests have passed through RealIP
    \* ---- the chain built by app.New ----
    cReq,       \* the request: X-Request-ID header, path, RemoteAddr, proxy headers
    cAlive,     \* the server process is running
    cMain,      \* serving goroutine: the layers entered and not yet returned
    cMainPc,    \* serving goroutine: "in" | "select" | "out" | "done"
    cInner,     \* Timeout's goroutine: the layers entered and not yet returned
    cInnerPc,   \* Timeout's goroutine: "none" | "in" | "handler" | "out" | "done"
    cTodo,      \* the calls the route's handler has still to make
    cCtxDone,   \* the derived context is done
    cGuard,     \* Timeout: "Init" | "Running" | "Completed" | "TimedOut"
    cCrw,       \* Timeout's capturingResponseWriter
    cW,         \* the real response writer
    cStatus,    \* statusWriter.status of SlogLogger
    cLog,       \* log entries
    cTrace,     \* history: the layers' entries and returns, in order
    \* ---- Compress and ETag ----
    zCfg,       \* Compress's allow-list and level; whether ETag wraps Compress;
                \* the Content-Type an outer layer has set already, if any
    zReq,       \* the request: method, Accept-Encoding, path
    zPc,        \* "new" | "compress" | "handler" | "done"
    zMode,      \* how Compress writes: "none" | "pass" | "deferred" | "gzip"
    zEtagOn,    \* an etagResponseWriter wraps the real writer
    zEtagBody,  \* etagResponseWriter.body
    zCw,        \* compressResponseWriter: shouldCompress, buffer
    zGz,        \* the gzip.Writer
    zW,         \* the real response writer
    zOps,       \* history: the calls the wrapped handler has made
    \* ---- PrecompressedFileServer ----
    sFS,        \* the files of the static tree (an embedded, read-only file system)
    sCache,     \* the existence cache: sibling path -> [exists, time]
    sClock,     \* wall clock
    pPc,        \* each request's position in the handler
    pReq,       \* each request: method, Accept-Encoding
    pEntry,     \* each request's local copy of the cache entry it read
    pResp,      \* each request's response
    pExists,    \* each request's local brExists / gzExists
    pUse,       \* history: the cached answer each request relied on last
    \* ---- the asset manager and the startup of main ----
    aFS,        \* the embedded file systems: manifest candidates, templates, static tree
    aPc,        \* main: "assets" | "render" | "app" | "serve" | "listening" |
                \* "exited"; "constructed": an AssetManager built directly
    aManager,   \* the AssetManager: manifest, logger (FALSE: nil)
    aOut,       \* what the last lookup returned
    \* ---- BuildAssetVersions ----
    vTree,      \* the static tree: path -> [bytes, modTime]
    vPc,        \* "new" | "built" | "edited" | "rebuilt"
    vMap,       \* the map the last build returned
    vPrevMap,   \* history: the map the build before the edit returned
    vEdit,      \* history: the edit made between the builds: op, path
    \* ---- Renderer.HTML and its buffer pool ----
    bPool,      \* bufferPool: the buffers put back and not taken again
    bBuf,       \* the contents of each bytes.Buffer made so far
    bMade,      \* the number of buffers bufferPool.New has made
    bPc,        \* each request in HTML: "new" | "exec" | "done"
    bHeld,      \* the buffer each request holds (0: none)
    bW,         \* each request's response writer
    bExit,      \* history: how HTML ended: "none" | "notfound" | "ok" | "error" | "panic"
    bGot,       \* history: the buffer each request acquired (0: none)
    \* ---- the CSP nonce: SecurityHeaders and the renderers ----
    nPc,        \* each request: "new" | "handler" | "done"
    nCsp,       \* the Content-Security-Policy header set on each request's writer ("": none)
    nCtx,       \* each request's context: key -> value ("": no value)
    nTpl,       \* what each request's template is given: exposed, nonce
    \* ---- RequestID ----
    qPc,        \* each request: "new" | "done" (RequestID has called next)
    qIn,        \* history: the X-Request-ID values each request arrived with
    qReq,       \* the X-Request-ID values of each request's header
    qResp,      \* the X-Request-ID values of each response's header
    qCtx,       \* each request's context: key -> value ("": no value)
    qGen        \* history: generateRequestID was called for the request

guardVars == <<chain, alive, rState, gState, hState, ctxDone, fired, parentDone,
               crw, dst, logs, hOps, opsAtSelect, hAtSelect, hAtFire>>
rateVars  == <<limit, window, requests, mu, clock, rlpc, rlKey, rlNow, rlPre,
               rlLog, nextCalled>>
ipVars    == <<trustedProxies, req, origAddr, origPeer, ipDone>>
chainVars == <<cReq, cAlive, cMain, cMainPc, cInner, cInnerPc, cTodo, cCtxDone, cGuard,
               cCrw, cW, cStatus, cLog, cTrace>>
compVars  == <<zCfg, zReq, zPc, zMode, zEtagOn, zEtagBody, zCw, zGz, zW, zOps>>
staticVars == <<sFS, sCache, sClock, pPc, pReq, pEntry, pResp, pExists, pUse>>
assetVars == <<aFS, aPc, aManager, aOut>>
versionVars == <<vTree, vPc, vMap, vPrevMap, vEdit>>
renderVars == <<bPool, bBuf, bMade, bPc, bHeld, bW, bExit, bGot>>
nonceVars == <<nPc, nCsp, nCtx, nTpl>>
ridVars == <<qPc, qIn, qReq, qResp, qCtx, qGen>>
vars      == <<guardVars, rateVars, ipVars, chainVars, compVars, staticVars, assetVars, versionVars, renderVars, nonceVars, ridVars>>

\* the variables of the components a specification does not exercise
notGuard == <<rateVars, ipVars, chainVars, compVars, staticVars, assetVars, versionVars, renderVars, nonceVars, ridVars>>
notRate  == <<guardVars, ipVars, chainVars, compVars, staticVars, assetVars, versionVars, renderVars, nonceVars, ridVars>>
notIP    == <<guardVars, rateVars, chainVars, compVars, staticVars, assetVars, versionVars, renderVars, nonceVars, ridVars>>
notChain == <<guardVars, rateVars, ipVars, compVars, staticVars, assetVars, versionVars, renderVars, nonceVars, ridVars>>
notComp  == <<guardVars, rateVars, ipVars, chainVars, staticVars, assetVars, versionVars, renderVars, nonceVars, ridVars>>
notStatic == <<guardVars, rateVars, ipVars, chainVars, compVars, assetVars, versionVars, renderVars, nonceVars, ridVars>>
notAssets == <<guardVars, rateVars, ipVars, chainVars, compVars, staticVars, versionVars, renderVars, nonceVars, ridVars>>
notVersions == <<guardVars, rateVars, ipVars, chainVars, compVars, staticVars, assetVars, renderVars, nonceVars, ridVars>>
notRender == <<guardVars, rateVars, ipVars, chainVars, compVars, staticVars, assetVars, versionVars, nonceVars, ridVars>>
notNonce == <<guardVars, rateVars, ipVars, chainVars, compVars, staticVars, assetVars, versionVars, renderVars, ridVars>>
notRequestID == <<guardVars, rateVars, ipVars, chainVars, compVars, staticVars, assetVars, versionVars, renderVars, nonceVars>>

(***************************************************************************)
(* Bounds                                                                  *)
(***************************************************************************)
MaxOps == 3         \* calls the inner handler makes on its response writer
MaxTime == 3        \* last clock value
MaxReqs == 4        \* requests handled by the rate limiter
MaxCalls == 3       \* calls the handler under Compress makes on its writer
MaxFileSize == 4    \* the size ceiling of BuildAssetVersions, in bytes, scaled
MaxRenders == 3     \* requests that call Renderer.HTML

Range(s) == {s[i] : i \in 1..Len(s)}

(***************************************************************************)
(* HTTP headers: a map from key to the list of its values.                 *)
(***************************************************************************)
HeaderKeys == {"Content-Type", "X-App", "X-Content-Type-Options",
               "Content-Length", "X-Request-ID", "X-Frame-Options",
               "X-XSS-Protection", "Referrer-Policy", "Content-Security-Policy",
               "Permissions-Policy", "Content-Encoding", "Vary", "ETag"}
EmptyHeader == [k \in HeaderKeys |-> <<>>]
HSet(h, k, v) == [h EXCEPT ![k] = <<v>>]
HAdd(h, k, v) == [h EXCEPT ![k] = Append(@, v)]
HDel(h, k)    == [h EXCEPT ![k] = <<>>]

(***************************************************************************)
(* The real response writer. status = 0: the header is not written yet.    *)
(* `sent` is the header block committed by the first WriteHeader.          *)
(***************************************************************************)
DstWriteHeader(d, code) ==
    IF d.status # 0 THEN d
    ELSE [d EXCEPT !.status = code, !.sent = d.hdr]

DstWrite(d, b) ==
    LET d1 == IF d.status = 0 THEN DstWriteHeader(d, 200) ELSE d
    IN  [d1 EXCEPT !.body = @ \o b]

\* http.Error(w, msg, code)
HttpError(d, msg, code) ==
    LET h  == HSet(HSet(HDel(d.hdr, "Content-Length"),
                        "Content-Type", "text/plain; charset=utf-8"),
                   "X-Content-Type-Options", "nosniff")
        d1 == DstWriteHeader([d EXCEPT !.hdr = h], code)
    IN  DstWrite(d1, <<msg>>)

\* The real writer as the guard receives it: the outer layers have set the
\* request id header and written nothing.
Dst0 ==
    [hdr    |-> HSet(EmptyHeader, "X-Request-ID", "rid"),
     status |-> 0,
     sent   |-> EmptyHeader,
     body   |-> <<>>]

(***************************************************************************)
(* capturingResponseWriter                                                 *)
(***************************************************************************)
newCapturingResponseWriter ==
    [header |-> EmptyHeader, statusCode |-> 0, wroteHeader |-> FALSE, buf |-> <<>>]

CrwWriteHeaderLast(c, code) ==
    [c EXCEPT !.wroteHeader = TRUE, !.statusCode = code]

CrwWriteHeader(c, code) ==
    IF c.wroteHeader THEN c
    ELSE [c EXCEPT !.wroteHeader = TRUE, !.statusCode = code]

CrwWrite(c, b) ==
    LET c1 == IF ~c.wroteHeader THEN CrwWriteHeader(c, 200) ELSE c
    IN  [c1 EXCEPT !.buf = @ \o b]

\* flush: what it leaves in the real writer
FlushDst(c, d) ==
    LET d1   == [d EXCEPT !.hdr = [k \in HeaderKeys |-> d.hdr[k] \o c.header[k]]]
        code == IF c.statusCode = 0 THEN 200 ELSE c.statusCode
        d2   == DstWriteHeader(d1, code)
    IN  IF Len(c.buf) > 0 THEN DstWrite(d2, c.buf) ELSE d2

\* flush: what it leaves in the capturing writer
FlushCrw(c) ==
    IF c.statusCode = 0 THEN [c EXCEPT !.statusCode = 200] ELSE c

(***************************************************************************)
(* The inner handler: an arbitrary sequence of calls on its writer.        *)
(***************************************************************************)
HandlerKeys   == {"Content-Type", "X-App"}
HandlerValues == {"v1", "v2"}
HandlerCodes  == {201, 404}
HandlerChunks == {<<>>, <<"a">>, <<"b">>}

HandlerCalls ==
    [op : {"Set", "Add"}, k : HandlerKeys, v : HandlerValues]
    \cup [op : {"WriteHeader"}, code : HandlerCodes]
    \cup [op : {"Write"}, b : HandlerChunks]

\* a call made on the capturing writer
ApplyCrw(c, call) ==
    CASE call.op = "Set"         -> [c EXCEPT !.header = HSet(@, call.k, call.v)]
      [] call.op = "Add"         -> [c EXCEPT !.header = HAdd(@, call.k, call.v)]
      [] call.op = "WriteHeader" -> CrwWriteHeader(c, call.code)
      [] call.op = "Write"       -> CrwWrite(c, call.b)

\* a call made on the real writer
ApplyDst(d, call) ==
    CASE call.op = "Set"         -> [d EXCEPT !.hdr = HSet(@, call.k, call.v)]
      [] call.op = "Add"         -> [d EXCEPT !.hdr = HAdd(@, call.k, call.v)]
      [] call.op = "WriteHeader" -> DstWriteHeader(d, call.code)
      [] call.op = "Write"       -> DstWrite(d, call.b)

\* The old guard handed the real writer to the inner handler.
CapturedNever == FALSE

\* Timeout runs the inner handler against the capturing writer.
Captured == chain = "app"

(***************************************************************************)
(* Recoverer and the deadline guard                                        *)
(***************************************************************************)
\* Recoverer: install the deferred recover and call next.
RecovererServe ==
    /\ alive /\ rState = "idle"
    /\ rState' = "active"
    /\ UNCHANGED notGuard
    /\ UNCHANGED <<hAtFire, parentDone, chain, alive, gState, hState, ctxDone, fired, crw, dst,
                   logs, hOps, opsAtSelect, hAtSelect>>

\* Timeout: derive the context, create the capturing writer and the done
\* channel, start the inner handler on its own goroutine.
TimeoutServe ==
    /\ alive /\ chain = "app" /\ rState = "active" /\ gState = "Init"
    /\ gState' = "Running"
    /\ hState' = "running"
    /\ crw' = newCapturingResponseWriter
    /\ UNCHANGED notGuard
    /\ UNCHANGED <<hAtFire, parentDone, chain, alive, rState, ctxDone, fired, dst, logs, hOps,
                   opsAtSelect, hAtSelect>>

\* Recoverer wrapping a handler directly: next runs on Recoverer's goroutine.
DirectServe ==
    /\ alive /\ chain = "direct" /\ rState = "active" /\ hState = "notstarted"
    /\ hState' = "running"
    /\ UNCHANGED notGuard
    /\ UNCHANGED <<hAtFire, parentDone, chain, alive, rState, gState, ctxDone, fired, crw, dst,
                   logs, hOps, opsAtSelect, hAtSelect>>

\* The inner handler calls Header().Set/Add, WriteHeader or Write.
HandlerCall(call) ==
    /\ alive /\ hState = "running" /\ Len(hOps) < MaxOps
    /\ hOps' = Append(hOps, call)
    /\ IF Captured
       THEN crw' = ApplyCrw(crw, call) /\ dst' = dst
       ELSE dst' = ApplyDst(dst, call) /\ crw' = crw
    /\ UNCHANGED notGuard
    /\ UNCHANGED <<hAtFire, parentDone, chain, alive, rState, gState, hState, ctxDone, fired, logs,
                   opsAtSelect, hAtSelect>>

\* The inner handler returns; under the guard its goroutine closes `done`.
HandlerReturn ==
    /\ alive /\ hState = "running"
    /\ hState' = "returned"
    /\ UNCHANGED notGuard
    /\ UNCHANGED <<hAtFire, parentDone, chain, alive, rState, gState, ctxDone, fired, crw, dst,
                   logs, hOps, opsAtSelect, hAtSelect>>

\* The inner handler panics. On the guard's goroutine nothing recovers the
\* panic, so the Go runtime ends the process; called directly, the panic
\* unwinds into Recoverer's deferred function.
HandlerPanic ==
    /\ alive /\ hState = "running"
    /\ hState' = "panicked"
    /\ alive' = (chain # "app")
    /\ UNCHANGED notGuard
    /\ UNCHANGED <<hAtFire, parentDone, chain, rState, gState, ctxDone, fired, crw, dst, logs,
                   hOps, opsAtSelect, hAtSelect>>

\* Recoverer's deferred function: recover, log, answer 500.
RecovererRecover ==
    /\ alive /\ rState = "active" /\ chain = "direct" /\ hState = "panicked"
    /\ logs' = Append(logs, "panic recovered")
    /\ dst' = HttpError(dst, "Internal Server Error", 500)
    /\ rState' = "returned"
    /\ UNCHANGED notGuard
    /\ UNCHANGED <<hAtFire, parentDone, chain, alive, gState, hState, ctxDone, fired, crw, hOps,
                   opsAtSelect, hAtSelect>>

\* The request's own context is cancelled (net/http does so when the client
\* goes away): the derived context is done with it, no deadline having passed.
ParentCancel ==
    /\ alive /\ gState = "Running" /\ ~ctxDone
    /\ ctxDone' = TRUE
    /\ parentDone' = TRUE
    /\ UNCHANGED notGuard
    /\ UNCHANGED <<hAtFire, chain, alive, rState, gState, hState, fired, crw, dst, logs,
                   hOps, opsAtSelect, hAtSelect>>

\* The deadline passes without the context being cancelled.
DeadlineFireNoCancel ==
    /\ alive /\ gState = "Running" /\ ~fired
    /\ fired' = TRUE
    /\ hAtFire' = hState
    /\ UNCHANGED notGuard
    /\ UNCHANGED <<parentDone, chain, alive, rState, gState, hState, ctxDone, crw, dst,
                   logs, hOps, opsAtSelect, hAtSelect>>

\* The deadline of the derived context passes.
DeadlineFire ==
    /\ alive /\ gState = "Running" /\ ~ctxDone
    /\ ctxDone' = TRUE
    /\ fired' = TRUE
    /\ hAtFire' = hState
    /\ UNCHANGED notGuard
    /\ UNCHANGED <<parentDone, chain, alive, rState, gState, hState, crw, dst, logs, hOps,
                   opsAtSelect, hAtSelect>>

GuardTimeoutThenFlush ==
    /\ alive /\ gState = "Running" /\ ctxDone
    /\ dst' = FlushDst(crw, HttpError(dst, "Request Timeout", 408))
    /\ gState' = "TimedOut"
    /\ opsAtSelect' = Len(hOps)
    /\ hAtSelect' = hState
    /\ UNCHANGED notGuard
    /\ UNCHANGED <<hAtFire, parentDone, chain, alive, rState, hState, ctxDone, fired, crw, logs, hOps>>

\* select, case <-ctx.Done(): answer 408 on the real writer and return
\* (the deferred cancel leaves the context done).
GuardTimeout ==
    /\ alive /\ gState = "Running" /\ ctxDone
    /\ dst' = HttpError(dst, "Request Timeout", 408)
    /\ gState' = "TimedOut"
    /\ opsAtSelect' = Len(hOps)
    /\ hAtSelect' = hState
    /\ UNCHANGED notGuard
    /\ UNCHANGED <<hAtFire, parentDone, chain, alive, rState, hState, ctxDone, fired, crw, logs, hOps>>

\* A flush that does not wait for the inner handler's completion signal.
GuardFlushEarly ==
    /\ alive /\ gState = "Running" /\ hState \in {"running", "returned"}
    /\ dst' = FlushDst(crw, dst)
    /\ crw' = FlushCrw(crw)
    /\ gState' = "Completed"
    /\ ctxDone' = TRUE
    /\ opsAtSelect' = Len(hOps)
    /\ hAtSelect' = hState
    /\ UNCHANGED notGuard
    /\ UNCHANGED <<hAtFire, parentDone, chain, alive, rState, hState, fired, logs, hOps>>

\* select, case <-done: flush the captured response and return.
GuardFlush ==
    /\ alive /\ gState = "Running" /\ hState = "returned"
    /\ dst' = FlushDst(crw, dst)
    /\ crw' = FlushCrw(crw)
    /\ gState' = "Completed"
    /\ ctxDone' = TRUE
    /\ opsAtSelect' = Len(hOps)
    /\ hAtSelect' = hState
    /\ UNCHANGED notGuard
    /\ UNCHANGED <<hAtFire, parentDone, chain, alive, rState, hState, fired, logs, hOps>>

\* Recoverer's ServeHTTP returns normally.
RecovererReturn ==
    /\ alive /\ rState = "active"
    /\ \/ chain = "app" /\ gState \in {"Completed", "TimedOut"}
       \/ chain = "direct" /\ hState = "returned"
    /\ rState' = "returned"
    /\ UNCHANGED notGuard
    /\ UNCHANGED <<hAtFire, parentDone, chain, alive, gState, hState, ctxDone, fired, crw, dst,
                   logs, hOps, opsAtSelect, hAtSelect>>

GuardNext ==
    \/ RecovererServe
    \/ TimeoutServe
    \/ DirectServe
    \/ \E call \in HandlerCalls : HandlerCall(call)
    \/ HandlerReturn
    \/ HandlerPanic
    \/ RecovererRecover
    \/ DeadlineFire
    \/ ParentCancel
    \/ GuardTimeout
    \/ GuardFlush
    \/ RecovererReturn

(***************************************************************************)
(* RateLimiter                                                             *)
(***************************************************************************)
Procs      == {"g1", "g2"}      \* request-handling goroutines
ClientKeys == {"A", "B"}        \* values of r.RemoteAddr
Limits     == {0, 1, 2}
Windows    == {1, 2}

\* rl.requests[key]; a missing key reads as the nil slice
Get(m, k) == IF k \in DOMAIN m THEN m[k] ELSE <<>>
Put(m, k, v) == [x \in DOMAIN m \cup {k} |-> IF x = k THEN v ELSE m[x]]

PruneNever(times, now) == times

\* the timestamps that are still inside the window
Prune(times, now) == SelectSeq(times, LAMBDA t : now - t <= window)

OverLimitStrict(times) == Len(times) > limit

\* the client has used up its quota
OverLimit(times) == Len(times) >= limit

MutexIgnored == TRUE

\* rl.mu can be taken
MutexFree == mu = "free"

InCritical == {q \in Procs : rlpc[q] \in {"locked", "pruned"}}

\* time passes
Tick ==
    /\ clock < MaxTime
    /\ clock' = clock + 1
    /\ UNCHANGED notRate
    /\ UNCHANGED <<limit, window, requests, mu, rlpc, rlKey, rlNow, rlPre,
                   rlLog, nextCalled>>

\* key := r.RemoteAddr; rl.mu.Lock(); now := time.Now()
RLLock(p, k) ==
    /\ rlpc[p] = "idle"
    /\ Len(rlLog) + Cardinality(InCritical) < MaxReqs
    /\ MutexFree
    /\ mu' = p
    /\ rlKey' = [rlKey EXCEPT ![p] = k]
    /\ rlNow' = [rlNow EXCEPT ![p] = clock]
    /\ rlPre' = [rlPre EXCEPT ![p] = Get(requests, k)]
    /\ rlpc' = [rlpc EXCEPT ![p] = "locked"]
    /\ UNCHANGED notRate
    /\ UNCHANGED <<limit, window, requests, clock, rlLog, nextCalled>>

\* drop the timestamps that left the window, when the key has an entry
RLPrune(p) ==
    /\ rlpc[p] = "locked"
    /\ requests' = IF rlKey[p] \in DOMAIN requests
                   THEN Put(requests, rlKey[p], Prune(requests[rlKey[p]], rlNow[p]))
                   ELSE requests
    /\ rlpc' = [rlpc EXCEPT ![p] = "pruned"]
    /\ UNCHANGED notRate
    /\ UNCHANGED <<limit, window, mu, clock, rlKey, rlNow, rlPre, rlLog,
                   nextCalled>>

\* the goroutine's locals once its request is answered
Answered(f, p, v) == [f EXCEPT ![p] = v]

RLRejectRecording(p) ==
    /\ rlpc[p] = "pruned"
    /\ OverLimit(Get(requests, rlKey[p]))
    /\ requests' = Put(requests, rlKey[p], Append(Get(requests, rlKey[p]), rlNow[p]))
    /\ mu' = "free"
    /\ rlLog' = Append(rlLog, [key |-> rlKey[p], now |-> rlNow[p], code |-> 429,
                               pre |-> rlPre[p], post |-> Get(requests', rlKey[p])])
    /\ rlpc' = Answered(rlpc, p, "idle")
    /\ rlKey' = Answered(rlKey, p, "A")
    /\ rlNow' = Answered(rlNow, p, 0)
    /\ rlPre' = Answered(rlPre, p, <<>>)
    /\ UNCHANGED notRate
    /\ UNCHANGED <<limit, window, clock, nextCalled>>

\* over the limit: unlock, answer 429 and return
RLReject(p) ==
    /\ rlpc[p] = "pruned"
    /\ OverLimit(Get(requests, rlKey[p]))
    /\ mu' = "free"
    /\ rlLog' = Append(rlLog, [key |-> rlKey[p], now |-> rlNow[p], code |-> 429,
                               pre |-> rlPre[p], post |-> Get(requests, rlKey[p])])
    /\ rlpc' = Answered(rlpc, p, "idle")
    /\ rlKey' = Answered(rlKey, p, "A")
    /\ rlNow' = Answered(rlNow, p, 0)
    /\ rlPre' = Answered(rlPre, p, <<>>)
    /\ UNCHANGED notRate
    /\ UNCHANGED <<limit, window, requests, clock, nextCalled>>

\* under the limit: record now, unlock, and call next.ServeHTTP(w, r),
\* which answers 200
RLAdmit(p) ==
    /\ rlpc[p] = "pruned"
    /\ ~OverLimit(Get(requests, rlKey[p]))
    /\ requests' = Put(requests, rlKey[p], Append(Get(requests, rlKey[p]), rlNow[p]))
    /\ mu' = "free"
    /\ rlLog' = Append(rlLog, [key |-> rlKey[p], now |-> rlNow[p], code |-> 200,
                               pre |-> rlPre[p], post |-> Get(requests', rlKey[p])])
    /\ nextCalled' = nextCalled \cup {Len(rlLog) + 1}
    /\ rlpc' = Answered(rlpc, p, "idle")
    /\ rlKey' = Answered(rlKey, p, "A")
    /\ rlNow' = Answered(rlNow, p, 0)
    /\ rlPre' = Answered(rlPre, p, <<>>)
    /\ UNCHANGED notRate
    /\ UNCHANGED <<limit, window, clock>>

RateNext ==
    \/ Tick
    \/ \E p \in Procs, k \in ClientKeys : RLLock(p, k)
    \/ \E p \in Procs : RLPrune(p)
    \/ \E p \in Procs : RLReject(p)
    \/ \E p \in Procs : RLAdmit(p)

(***************************************************************************)
(* RealIP. A string is a sequence of tokens: an IPv4 literal is one token  *)
(* (it holds no colon, comma or space), every other character stands for   *)
(* itself.                                                                 *)
(***************************************************************************)
IPv4Lits == {"203.0.113.1", "127.0.0.1", "198.51.100.7"}
Loopback6 == <<":", ":", "1">>          \* "::1"
NilIP == <<>>                           \* the nil net.IP

\* net.ParseIP: the address, or nil when the string is no IP literal
ParseIP(s) ==
    IF Len(s) = 1 /\ s[1] \in IPv4Lits THEN s
    ELSE IF s = Loopback6 THEN s
    ELSE NilIP

\* strings.LastIndex, 1-based; 0 when c does not occur
LastIndex(s, c) ==
    IF \E i \in 1..Len(s) : s[i] = c
    THEN CHOOSE i \in 1..Len(s) : s[i] = c /\ \A j \in (i+1)..Len(s) : s[j] # c
    ELSE 0

\* strings.Split(s, ",")[0]
FirstField(s) ==
    IF \E i \in 1..Len(s) : s[i] = ","
    THEN SubSeq(s, 1, (CHOOSE i \in 1..Len(s) :
                          s[i] = "," /\ \A j \in 1..(i-1) : s[j] # ",") - 1)
    ELSE s

RECURSIVE TrimLeft(_)
TrimLeft(s) == IF Len(s) > 0 /\ s[1] = " " THEN TrimLeft(Tail(s)) ELSE s
RECURSIVE TrimRight(_)
TrimRight(s) ==
    IF Len(s) > 0 /\ s[Len(s)] = " " THEN TrimRight(SubSeq(s, 1, Len(s) - 1)) ELSE s
\* strings.TrimSpace
TrimSpace(s) == TrimRight(TrimLeft(s))

\* RealIP keeps the configured proxies that parse as IP addresses
TrustedIPs(proxies) ==
    LET parsed == [i \in 1..Len(proxies) |-> ParseIP(proxies[i])]
    IN  SelectSeq(parsed, LAMBDA ip : ip # NilIP)

extractIPFromAddr(addr) ==
    LET colonIndex == LastIndex(addr, ":")
    IN  ParseIP(IF colonIndex # 0 THEN SubSeq(addr, 1, colonIndex - 1) ELSE addr)

isTrustedProxy(ip, trustedIPs) ==
    /\ ip # NilIP
    /\ \E i \in 1..Len(trustedIPs) : ip = trustedIPs[i]

\* the proxy headers in order of preference, without the trust check
headerIP(r) ==
    LET clientIP == TrimSpace(FirstField(r.xForwardedFor))
    IN  IF r.xForwardedFor # <<>> /\ ParseIP(clientIP) # NilIP THEN clientIP
        ELSE IF r.xRealIP # <<>> /\ ParseIP(r.xRealIP) # NilIP THEN r.xRealIP
        ELSE IF r.xClientIP # <<>> /\ ParseIP(r.xClientIP) # NilIP THEN r.xClientIP
        ELSE IF r.cfConnectingIP # <<>> /\ ParseIP(r.cfConnectingIP) # NilIP
             THEN r.cfConnectingIP
        ELSE r.RemoteAddr

extractRealIPTrusting(r, trustedIPs) == headerIP(r)

extractRealIP(r, trustedIPs) ==
    LET directIP == extractIPFromAddr(r.RemoteAddr)
    IN  IF ~isTrustedProxy(directIP, trustedIPs) THEN r.RemoteAddr
        ELSE headerIP(r)

\* inputs
PeerLits == {<<"203.0.113.1">>, <<"127.0.0.1">>, Loopback6, <<"bad">>}
\* net.JoinHostPort
JoinHostPort(host, port) ==
    IF \E i \in 1..Len(host) : host[i] = ":"
    THEN <<"[">> \o host \o <<"]", ":", port>>
    ELSE host \o <<":", port>>
ProxyConfigs ==
    { <<>>,
      << <<"127.0.0.1">> >>,
      << <<"127.0.0.1">>, Loopback6 >>,
      << <<"bad">>, <<"203.0.113.1">> >> }
ForwardedVals ==
    { <<>>,
      <<"198.51.100.7">>,
      <<" ", "203.0.113.1", ",", " ", "127.0.0.1">>,
      <<"bad", ",", "127.0.0.1">> }
SingleVals == { <<>>, <<"198.51.100.7">>, <<"bad">> }

Requests ==
    [RemoteAddr : {<<>>}, xForwardedFor : ForwardedVals, xRealIP : SingleVals,
     xClientIP : SingleVals, cfConnectingIP : SingleVals]
\* the second request varies the forwarded header and one other value
Requests2 ==
    {r \in Requests : r.xRealIP = r.xClientIP /\ r.xClientIP = r.cfConnectingIP}

\* RealIP's handler: r.RemoteAddr = extractRealIP(r, trustedIPs)
RealIPServe(i) ==
    /\ ~ipDone[i]
    /\ req' = [req EXCEPT ![i].RemoteAddr =
                   extractRealIP(req[i], TrustedIPs(trustedProxies))]
    /\ ipDone' = [ipDone EXCEPT ![i] = TRUE]
    /\ UNCHANGED notIP
    /\ UNCHANGED <<trustedProxies, origAddr, origPeer>>

RealIPNext == \E i \in {1, 2} : RealIPServe(i)

(***************************************************************************)
(* The chain built by app.New:                                             *)
(*   RequestID(RealIP(Recoverer(SlogLogger(Timeout(SecurityHeaders(mux)))))) *)
(* RequestID to Timeout run on the serving goroutine; Timeout runs          *)
(* SecurityHeaders and the mux on a goroutine of its own.                   *)
(***************************************************************************)
Layers == <<"RequestID", "RealIP", "Recoverer", "SlogLogger", "Timeout",
            "SecurityHeaders", "mux">>

Entered(l)  == [ev |-> "enter", layer |-> l]
Returned(l) == [ev |-> "exit", layer |-> l]

\* cfg.TrustedProxies
ChainTrustedProxies == << <<"127.0.0.1">> >>

ChainRequests ==
    [rid : {"", "up-1"}, path : {"/healthz", "/"},
     acceptEncoding : {<<>>, <<"gzip">>},
     RemoteAddr : {<<"127.0.0.1", ":", "12345">>},
     xForwardedFor : {<<>>, <<"198.51.100.7">>}, xRealIP : {<<>>},
     xClientIP : {<<>>}, cfConnectingIP : {<<>>}]

\* the real writer as the server hands it to the chain
W0 == [hdr |-> EmptyHeader, status |-> 0, sent |-> EmptyHeader, body |-> <<>>]

\* the per-request CSP nonces rand.Read may produce
Nonces == {"n" \o ToString(i) : i \in 1..MaxRenders}

ContentSecurityPolicy(nonce) ==
    "default-src 'self'; "
    \o "script-src 'self' 'nonce-" \o nonce \o "'; "
    \o "style-src 'self'; "
    \o "img-src 'self' data:; "
    \o "font-src 'self'; "
    \o "object-src 'none'; "
    \o "base-uri 'self'; "
    \o "frame-ancestors 'none'"

\* the headers SecurityHeaders sets on the writer it is given
SetSecurityHeaders(h, nonce) ==
    HSet(HSet(HSet(HSet(HSet(HSet(h,
        "X-Frame-Options", "DENY"),
        "X-Content-Type-Options", "nosniff"),
        "X-XSS-Protection", "1; mode=block"),
        "Referrer-Policy", "strict-origin-when-cross-origin"),
        "Content-Security-Policy", ContentSecurityPolicy(nonce)),
        "Permissions-Policy", "geolocation=(), microphone=(), camera=()")

\* fmt.Sprintf(`"%x"`, sha256.Sum256([]byte(r.URL.Path))[:8])
PathETag(path) == "sha256(" \o path \o ")"

\* The calls that reach the mux's writer from the route's handler. /healthz
\* writes 200 and "ok". "/" is ETag(Compress(5, ...)(pages.Home)) on a GET
\* request: Compress, finding no Content-Type yet, defers its decision to
\* WriteHeader; Renderer.HTML sets the Content-Type, calls WriteHeader(200)
\* and writes the page (bytes a, b), or answers a template error with
\* http.Error; the etagResponseWriter, its body still empty at WriteHeader,
\* sets the ETag of the path; with gzip accepted text/html is compressed:
\* the gzip header goes out with the first Write, the deflated bytes and the
\* trailer when Compress closes the gzip writer.
RouteCalls(path, acceptEncoding, rendered) ==
    IF path = "/healthz"
    THEN << [op |-> "WriteHeader", code |-> 200], [op |-> "Write", b |-> <<"ok">>] >>
    ELSE IF ~rendered
    THEN << [op |-> "Set", k |-> "Content-Type", v |-> "text/plain; charset=utf-8"],
            [op |-> "Set", k |-> "X-Content-Type-Options", v |-> "nosniff"],
            [op |-> "Set", k |-> "ETag", v |-> PathETag(path)],
            [op |-> "WriteHeader", code |-> 500],
            [op |-> "Write", b |-> <<"template error">>] >>
    ELSE IF "gzip" \notin Range(acceptEncoding)
    THEN << [op |-> "Set", k |-> "Content-Type", v |-> "text/html; charset=utf-8"],
            [op |-> "Set", k |-> "ETag", v |-> PathETag(path)],
            [op |-> "WriteHeader", code |-> 200],
            [op |-> "Write", b |-> <<"a", "b">>] >>
    ELSE << [op |-> "Set", k |-> "Content-Type", v |-> "text/html; charset=utf-8"],
            [op |-> "Set", k |-> "Content-Encoding", v |-> "gzip"],
            [op |-> "Add", k |-> "Vary", v |-> "Accept-Encoding"],
            [op |-> "Set", k |-> "ETag", v |-> PathETag(path)],
            [op |-> "WriteHeader", code |-> 200],
            [op |-> "Write", b |-> <<"gz[">>],
            [op |-> "Write", b |-> <<"za", "zb", "zend">>],
            [op |-> "Write", b |-> <<"]gz">>] >>

\* RequestID: take or generate the id, echo it on the response, call next.
ChRequestID ==
    /\ cAlive /\ cMainPc = "in" /\ cMain = <<>>
    /\ LET id == IF cReq.rid = "" THEN "generated" ELSE cReq.rid
       IN  /\ cReq' = [cReq EXCEPT !.rid = id]
           /\ cW' = [cW EXCEPT !.hdr = HSet(@, "X-Request-ID", id)]
    /\ cMain' = <<"RequestID">>
    /\ cTrace' = Append(cTrace, Entered("RequestID"))
    /\ UNCHANGED notChain
    /\ UNCHANGED <<cGuard, cAlive, cMainPc, cInner, cInnerPc, cTodo, cCtxDone, cCrw,
                   cStatus, cLog>>

\* RealIP: resolve the client address, call next.
ChRealIP ==
    /\ cAlive /\ cMainPc = "in" /\ cMain = <<"RequestID">>
    /\ cReq' = [cReq EXCEPT !.RemoteAddr =
                    extractRealIP(cReq, TrustedIPs(ChainTrustedProxies))]
    /\ cMain' = Append(cMain, "RealIP")
    /\ cTrace' = Append(cTrace, Entered("RealIP"))
    /\ UNCHANGED notChain
    /\ UNCHANGED <<cGuard, cAlive, cMainPc, cInner, cInnerPc, cTodo, cCtxDone, cCrw, cW,
                   cStatus, cLog>>

\* Recoverer: install the deferred recover, call next.
ChRecoverer ==
    /\ cAlive /\ cMainPc = "in" /\ cMain = <<"RequestID", "RealIP">>
    /\ cMain' = Append(cMain, "Recoverer")
    /\ cTrace' = Append(cTrace, Entered("Recoverer"))
    /\ UNCHANGED notChain
    /\ UNCHANGED <<cGuard, cReq, cAlive, cMainPc, cInner, cInnerPc, cTodo, cCtxDone, cCrw,
                   cW, cStatus, cLog>>

\* SlogLogger: wrap the writer in a statusWriter, call next.
ChSlogLogger ==
    /\ cAlive /\ cMainPc = "in" /\ cMain = <<"RequestID", "RealIP", "Recoverer">>
    /\ cStatus' = 200
    /\ cMain' = Append(cMain, "SlogLogger")
    /\ cTrace' = Append(cTrace, Entered("SlogLogger"))
    /\ UNCHANGED notChain
    /\ UNCHANGED <<cGuard, cReq, cAlive, cMainPc, cInner, cInnerPc, cTodo, cCtxDone, cCrw,
                   cW, cLog>>

\* Timeout: derive the context, create the capturing writer, start the
\* goroutine that runs next, and wait in the select.
ChTimeout ==
    /\ cAlive /\ cMainPc = "in"
    /\ cMain = <<"RequestID", "RealIP", "Recoverer", "SlogLogger">>
    /\ cCrw' = newCapturingResponseWriter
    /\ cInnerPc' = "in"
    /\ cMainPc' = "select"
    /\ cGuard' = "Running"
    /\ cMain' = Append(cMain, "Timeout")
    /\ cTrace' = Append(cTrace, Entered("Timeout"))
    /\ UNCHANGED notChain
    /\ UNCHANGED <<cReq, cAlive, cInner, cTodo, cCtxDone, cW, cStatus, cLog>>

\* SecurityHeaders, on Timeout's goroutine: set the headers on its writer
\* (the capturing writer), call next.
ChSecurityHeaders(nonce) ==
    /\ cAlive /\ cInnerPc = "in" /\ cInner = <<>>
    /\ cCrw' = [cCrw EXCEPT !.header = SetSecurityHeaders(@, nonce)]
    /\ cInner' = <<"SecurityHeaders">>
    /\ cTrace' = Append(cTrace, Entered("SecurityHeaders"))
    /\ UNCHANGED notChain
    /\ UNCHANGED <<cGuard, cReq, cAlive, cMain, cMainPc, cInnerPc, cTodo, cCtxDone, cW,
                   cStatus, cLog>>

\* the mux dispatches to the route's handler; rendered: the page's template
\* executes without error
ChMux(rendered) ==
    /\ cAlive /\ cInnerPc = "in" /\ cInner = <<"SecurityHeaders">>
    /\ cTodo' = RouteCalls(cReq.path, cReq.acceptEncoding, rendered)
    /\ cInnerPc' = "handler"
    /\ cInner' = Append(cInner, "mux")
    /\ cTrace' = Append(cTrace, Entered("mux"))
    /\ UNCHANGED notChain
    /\ UNCHANGED <<cGuard, cReq, cAlive, cMain, cMainPc, cCtxDone, cCrw, cW, cStatus, cLog>>

\* the route's handler makes its next call on the capturing writer
ChHandlerCall ==
    /\ cAlive /\ cInnerPc = "handler" /\ cTodo # <<>>
    /\ cCrw' = ApplyCrw(cCrw, Head(cTodo))
    /\ cTodo' = Tail(cTodo)
    /\ UNCHANGED notChain
    /\ UNCHANGED <<cGuard, cReq, cAlive, cMain, cMainPc, cInner, cInnerPc, cCtxDone, cW,
                   cStatus, cLog, cTrace>>

\* a page handler panics on Timeout's goroutine: no deferred recover is on
\* that goroutine's stack, the Go runtime ends the process
ChHandlerPanic ==
    /\ cAlive /\ cInnerPc = "handler" /\ cReq.path = "/"
    /\ cAlive' = FALSE
    /\ UNCHANGED notChain
    /\ UNCHANGED <<cGuard, cReq, cMain, cMainPc, cInner, cInnerPc, cTodo, cCtxDone, cCrw,
                   cW, cStatus, cLog, cTrace>>

\* the route's handler and the mux return
ChMuxReturn ==
    /\ cAlive /\ cInnerPc = "handler" /\ cTodo = <<>>
    /\ cInnerPc' = "out"
    /\ cInner' = <<"SecurityHeaders">>
    /\ cTrace' = Append(cTrace, Returned("mux"))
    /\ UNCHANGED notChain
    /\ UNCHANGED <<cGuard, cReq, cAlive, cMain, cMainPc, cTodo, cCtxDone, cCrw, cW,
                   cStatus, cLog>>

\* SecurityHeaders returns and Timeout's goroutine closes `done`
ChSecurityHeadersReturn ==
    /\ cAlive /\ cInnerPc = "out"
    /\ cInnerPc' = "done"
    /\ cInner' = <<>>
    /\ cTrace' = Append(cTrace, Returned("SecurityHeaders"))
    /\ UNCHANGED notChain
    /\ UNCHANGED <<cGuard, cReq, cAlive, cMain, cMainPc, cTodo, cCtxDone, cCrw, cW,
                   cStatus, cLog>>

\* the deadline of Timeout's context passes, or the request's own context
\* is cancelled
ChDeadline ==
    /\ cAlive /\ cMainPc = "select" /\ ~cCtxDone
    /\ cCtxDone' = TRUE
    /\ UNCHANGED notChain
    /\ UNCHANGED <<cGuard, cReq, cAlive, cMain, cMainPc, cInner, cInnerPc, cTodo, cCrw,
                   cW, cStatus, cLog, cTrace>>

DoneClosedAlways == TRUE

\* Timeout's goroutine has closed `done`
DoneClosed == cInnerPc = "done"

\* Timeout's select, case <-ctx.Done(): answer 408 through the statusWriter
\* and return
ChTimeoutExpired ==
    /\ cAlive /\ cMainPc = "select" /\ cCtxDone
    /\ cW' = HttpError(cW, "Request Timeout", 408)
    /\ cStatus' = 408
    /\ cGuard' = "TimedOut"
    /\ cMainPc' = "out"
    /\ cMain' = <<"RequestID", "RealIP", "Recoverer", "SlogLogger">>
    /\ cTrace' = Append(cTrace, Returned("Timeout"))
    /\ UNCHANGED notChain
    /\ UNCHANGED <<cReq, cAlive, cInner, cInnerPc, cTodo, cCtxDone, cCrw, cLog>>

\* Timeout's select, case <-done: flush through the statusWriter and return
ChTimeoutFlush ==
    /\ cAlive /\ cMainPc = "select" /\ DoneClosed
    /\ cW' = FlushDst(cCrw, cW)
    /\ cStatus' = IF cCrw.statusCode = 0 THEN 200 ELSE cCrw.statusCode
    /\ cCrw' = FlushCrw(cCrw)
    /\ cCtxDone' = TRUE
    /\ cGuard' = "Completed"
    /\ cMainPc' = "out"
    /\ cMain' = <<"RequestID", "RealIP", "Recoverer", "SlogLogger">>
    /\ cTrace' = Append(cTrace, Returned("Timeout"))
    /\ UNCHANGED notChain
    /\ UNCHANGED <<cReq, cAlive, cInner, cInnerPc, cTodo, cLog>>

\* SlogLogger logs the request with the recorded status and returns
ChSlogLoggerReturn ==
    /\ cAlive /\ cMainPc = "out"
    /\ cMain = <<"RequestID", "RealIP", "Recoverer", "SlogLogger">>
    /\ cLog' = Append(cLog, [msg |-> "request", status |-> cStatus,
                              ip |-> cReq.RemoteAddr, request_id |-> cReq.rid])
    /\ cMain' = <<"RequestID", "RealIP", "Recoverer">>
    /\ cTrace' = Append(cTrace, Returned("SlogLogger"))
    /\ UNCHANGED notChain
    /\ UNCHANGED <<cGuard, cReq, cAlive, cMainPc, cInner, cInnerPc, cTodo, cCtxDone, cCrw,
                   cW, cStatus>>

\* Recoverer returns: nothing panicked on its goroutine
ChRecovererReturn ==
    /\ cAlive /\ cMainPc = "out" /\ cMain = <<"RequestID", "RealIP", "Recoverer">>
    /\ cMain' = <<"RequestID", "RealIP">>
    /\ cTrace' = Append(cTrace, Returned("Recoverer"))
    /\ UNCHANGED notChain
    /\ UNCHANGED <<cGuard, cReq, cAlive, cMainPc, cInner, cInnerPc, cTodo, cCtxDone, cCrw,
                   cW, cStatus, cLog>>

ChRealIPReturn ==
    /\ cAlive /\ cMainPc = "out" /\ cMain = <<"RequestID", "RealIP">>
    /\ cMain' = <<"RequestID">>
    /\ cTrace' = Append(cTrace, Returned("RealIP"))
    /\ UNCHANGED notChain
    /\ UNCHANGED <<cGuard, cReq, cAlive, cMainPc, cInner, cInnerPc, cTodo, cCtxDone, cCrw,
                   cW, cStatus, cLog>>

\* RequestID returns: the server has the whole response
ChRequestIDReturn ==
    /\ cAlive /\ cMainPc = "out" /\ cMain = <<"RequestID">>
    /\ cMain' = <<>>
    /\ cMainPc' = "done"
    /\ cTrace' = Append(cTrace, Returned("RequestID"))
    /\ UNCHANGED notChain
    /\ UNCHANGED <<cGuard, cReq, cAlive, cInner, cInnerPc, cTodo, cCtxDone, cCrw, cW,
                   cStatus, cLog>>

ChainNext ==
    \/ ChRequestID
    \/ ChRealIP
    \/ ChRecoverer
    \/ ChSlogLogger
    \/ ChTimeout
    \/ \E nonce \in Nonces : ChSecurityHeaders(nonce)
    \/ \E rendered \in BOOLEAN : ChMux(rendered)
    \/ ChHandlerCall
    \/ ChHandlerPanic
    \/ ChMuxReturn
    \/ ChSecurityHeadersReturn
    \/ ChDeadline
    \/ ChTimeoutExpired
    \/ ChTimeoutFlush
    \/ ChSlogLoggerReturn
    \/ ChRecovererReturn
    \/ ChRealIPReturn
    \/ ChRequestIDReturn

(***************************************************************************)
(* Compress and ETag. Header values and bodies are sequences of tokens: a  *)
(* body byte is "a" or "b"; a content type is its type prefix followed by  *)
(* its subtype and parameters.                                             *)
(***************************************************************************)
Bytes == {"a", "b"}

\* gzip.Writer: the stream it produces for the bytes written to it is the
\* gzip header, the deflated bytes, the final block and the trailer
GzipHeader  == <<"gz[">>
GzipTrailer == <<"]gz">>
DeflateEnd  == <<"zend">>
Deflate(x)  == IF x = "a" THEN "za" ELSE "zb"
Inflate(t)  == IF t = "za" THEN "a" ELSE "b"

RECURSIVE DeflateAll(_)
DeflateAll(s) == IF s = <<>> THEN <<>> ELSE <<Deflate(Head(s))>> \o DeflateAll(Tail(s))

\* gzip.Reader reading on after a member: the end of the body, or further
\* members (concatenated members are read as one stream)
RECURSIVE GunzipMembers(_)
GunzipMembers(body) ==
    IF body = <<>> THEN [ok |-> TRUE, data |-> <<>>]
    ELSE IF ~(\E k \in 1..Len(body) : body[k] = "]gz") THEN [ok |-> FALSE, data |-> <<>>]
    ELSE LET k == CHOOSE i \in 1..Len(body) :
                      body[i] = "]gz" /\ \A j \in 1..(i-1) : body[j] # "]gz"
             good == /\ k >= 3
                     /\ body[1] = "gz["
                     /\ body[k-1] = "zend"
                     /\ \A i \in 2..(k-2) : body[i] \in {Deflate(x) : x \in Bytes}
             rest == GunzipMembers(SubSeq(body, k + 1, Len(body)))
         IN  IF good /\ rest.ok
             THEN [ok |-> TRUE,
                   data |-> [i \in 1..(k-3) |-> Inflate(body[i+1])] \o rest.data]
             ELSE [ok |-> FALSE, data |-> <<>>]

\* gzip.NewReader and io.ReadAll over a whole body: ok is FALSE when the
\* body is not a gzip stream; an empty body is none (NewReader returns EOF)
Gunzip(body) ==
    IF body = <<>> THEN [ok |-> FALSE, data |-> <<>>]
    ELSE GunzipMembers(body)

NoGzipWriter == [made |-> FALSE, wroteHeader |-> FALSE, pending |-> <<>>, closed |-> FALSE]
\* gzip.NewWriterLevel succeeded
NewGzipWriter == [NoGzipWriter EXCEPT !.made = TRUE]
\* a gzip.NewWriterLevel that accepts every level
LevelOKAlways(level) == TRUE

\* gzip.NewWriterLevel returns an error for a level outside -2..9
LevelOK(level) == level >= -2 /\ level <= 9

TextHtml     == <<"text/", "html">>
TextHtmlUtf8 == <<"text/", "html", "; charset=utf-8">>
ImagePng     == <<"image/", "png">>

\* the allow-list app.New passes to Compress, and a list with a prefix entry
AppAllowedTypes    == {<<"text/", "html">>, <<"text/", "css">>,
                       <<"application/", "javascript">>,
                       <<"application/", "json">>, <<"image/", "svg+xml">>}
PrefixAllowedTypes == {<<"text/">>}

\* strings.HasPrefix
HasPrefix(s, p) == Len(p) <= Len(s) /\ SubSeq(s, 1, Len(p)) = p
\* strings.Contains(s, "gzip")
ContainsGzip(s) == "gzip" \in Range(s)
\* http.Header.Get: the first value, or the empty string
HGet(h, k) == IF h[k] = <<>> THEN <<>> ELSE h[k][1]

shouldCompress(contentType, allowedTypes) ==
    \/ contentType \in allowedTypes
    \/ \E allowedType \in allowedTypes : HasPrefix(contentType, allowedType)

\* fmt.Sprintf(`"%x"`, sha256.Sum256(x)[:8])
Hash(x) == [sha256 |-> x]

\* The writer Compress is given: the real writer d, behind the
\* etagResponseWriter when `on`; body is etagResponseWriter.body.
\* etagResponseWriter.Write
UWrite(u, data) ==
    IF u.on
    THEN LET b  == u.body \o data
             d1 == IF u.d.hdr["ETag"] = <<>>
                   THEN [u.d EXCEPT !.hdr = HSet(@, "ETag", Hash(b))]
                   ELSE u.d
         IN  [u EXCEPT !.body = b, !.d = DstWrite(d1, data)]
    ELSE [u EXCEPT !.d = DstWrite(u.d, data)]

\* etagResponseWriter.WriteHeader
UWriteHeader(u, code, path) ==
    IF u.on
    THEN LET d1 == IF u.d.hdr["ETag"] = <<>>
                   THEN [u.d EXCEPT !.hdr =
                            HSet(@, "ETag", IF Len(u.body) > 0 THEN Hash(u.body)
                                            ELSE Hash(path))]
                   ELSE u.d
         IN  [u EXCEPT !.d = DstWriteHeader(d1, code)]
    ELSE [u EXCEPT !.d = DstWriteHeader(u.d, code)]

\* gzip.Writer.Write: the header goes out with the first write, the data
\* stays in the compressor
GzWrite(g, u, data) ==
    [g |-> [g EXCEPT !.wroteHeader = TRUE, !.pending = @ \o data],
     u |-> IF g.wroteHeader THEN u ELSE UWrite(u, GzipHeader)]

\* gzip.Writer.Close: header if none was written, the deflated data with
\* its final block, the trailer
GzClose(g, u) ==
    IF g.closed THEN [g |-> g, u |-> u]
    ELSE LET u1 == IF g.wroteHeader THEN u ELSE UWrite(u, GzipHeader)
             u2 == UWrite(u1, DeflateAll(g.pending) \o DeflateEnd)
         IN  [g |-> [g EXCEPT !.wroteHeader = TRUE, !.pending = <<>>, !.closed = TRUE],
              u |-> UWrite(u2, GzipTrailer)]

\* the headers Compress sets when it compresses
SetGzipHeaders(d) ==
    [d EXCEPT !.hdr = HAdd(HSet(@, "Content-Encoding", "gzip"), "Vary", "Accept-Encoding")]

\* compressResponseWriter.Write; s is [cw, g, u]
CompressWrite(s, data) ==
    IF ~s.cw.shouldCompress THEN [s EXCEPT !.u = UWrite(s.u, data)]
    ELSE IF ~s.g.made THEN [s EXCEPT !.cw.buffer = @ \o data]
    ELSE LET r == GzWrite(s.g, s.u, data) IN [s EXCEPT !.g = r.g, !.u = r.u]

\* compressResponseWriter.WriteHeader
CompressWriteHeader(s, code, allowedTypes, level, path) ==
    LET contentType == HGet(s.u.d.hdr, "Content-Type")
        sc == shouldCompress(contentType, allowedTypes)
        s1 == IF sc /\ LevelOK(level)
              THEN LET u1 == [s.u EXCEPT !.d = SetGzipHeaders(@)]
                       r  == IF Len(s.cw.buffer) > 0
                             THEN GzWrite(NewGzipWriter, u1, s.cw.buffer)
                             ELSE [g |-> NewGzipWriter, u |-> u1]
                   IN  [cw |-> [shouldCompress |-> TRUE, buffer |-> <<>>],
                        g |-> r.g, u |-> r.u]
              ELSE [cw |-> [shouldCompress |-> FALSE, buffer |-> <<>>],
                    g |-> s.g,
                    u |-> IF Len(s.cw.buffer) > 0 THEN UWrite(s.u, s.cw.buffer) ELSE s.u]
    IN  [s1 EXCEPT !.u = UWriteHeader(@, code, path)]

\* the calls of the handler Compress wraps
CompressCalls ==
    [op : {"Set"}, v : {TextHtmlUtf8, ImagePng}]
    \cup [op : {"WriteHeader"}, code : {200, 404}]
    \cup [op : {"Write"}, b : {<<"a">>, <<"b">>}]

\* a call on the writer Compress hands to the handler, by the path taken
ApplyCompress(mode, s, call, allowedTypes, level, path) ==
    CASE call.op = "Set" ->
            [s EXCEPT !.u.d.hdr = HSet(@, "Content-Type", call.v)]
      [] call.op = "WriteHeader" /\ mode = "deferred" ->
            CompressWriteHeader(s, call.code, allowedTypes, level, path)
      [] call.op = "WriteHeader" /\ mode # "deferred" ->
            [s EXCEPT !.u = UWriteHeader(s.u, call.code, path)]
      [] call.op = "Write" /\ mode = "deferred" -> CompressWrite(s, call.b)
      [] call.op = "Write" /\ mode = "gzip" ->
            LET r == GzWrite(s.g, s.u, call.b) IN [s EXCEPT !.g = r.g, !.u = r.u]
      [] call.op = "Write" /\ mode = "pass" -> [s EXCEPT !.u = UWrite(s.u, call.b)]

\* the writers as one record
ZState == [cw |-> zCw, g |-> zGz, u |-> [on |-> zEtagOn, body |-> zEtagBody, d |-> zW]]

\* ETag: wrap the writer for GET requests, call next
ETagServe ==
    /\ zPc = "new" /\ zCfg.etag
    /\ zEtagOn' = (zReq.method = "GET")
    /\ zPc' = "compress"
    /\ UNCHANGED notComp
    /\ UNCHANGED <<zCfg, zReq, zMode, zEtagBody, zCw, zGz, zW, zOps>>

\* Compress, up to its call of next: choose how the response is written
CompressServe ==
    /\ \/ zPc = "compress"
       \/ zPc = "new" /\ ~zCfg.etag
    /\ LET contentType == HGet(zW.hdr, "Content-Type")
       IN  IF ~ContainsGzip(zReq.acceptEncoding)
           THEN zMode' = "pass" /\ UNCHANGED <<zGz, zW>>
           ELSE IF contentType = <<>>
           THEN zMode' = "deferred" /\ UNCHANGED <<zGz, zW>>
           ELSE IF ~shouldCompress(contentType, zCfg.allowedTypes)
           THEN zMode' = "pass" /\ UNCHANGED <<zGz, zW>>
           ELSE IF ~LevelOK(zCfg.level)
           THEN zMode' = "pass" /\ UNCHANGED <<zGz, zW>>
           ELSE /\ zMode' = "gzip"
                /\ zGz' = NewGzipWriter
                /\ zW' = SetGzipHeaders(zW)
    /\ zPc' = "handler"
    /\ UNCHANGED notComp
    /\ UNCHANGED <<zCfg, zReq, zEtagOn, zEtagBody, zCw, zOps>>

\* the wrapped handler calls Header().Set, WriteHeader or Write
CompressHandlerCall(call) ==
    /\ zPc = "handler" /\ Len(zOps) < MaxCalls
    /\ LET s == ApplyCompress(zMode, ZState, call, zCfg.allowedTypes, zCfg.level,
                              zReq.path)
       IN  /\ zCw' = s.cw
           /\ zGz' = s.g
           /\ zEtagBody' = s.u.body
           /\ zW' = s.u.d
    /\ zOps' = Append(zOps, call)
    /\ UNCHANGED notComp
    /\ UNCHANGED <<zCfg, zReq, zPc, zMode, zEtagOn>>

\* the wrapped handler returns: Compress closes the gzip writer it made
\* (compressWriter.Close, or the deferred gw.Close)
CompressReturn ==
    /\ zPc = "handler"
    /\ LET r == IF zGz.made THEN GzClose(zGz, ZState.u) ELSE [g |-> zGz, u |-> ZState.u]
       IN  /\ zGz' = r.g
           /\ zEtagBody' = r.u.body
           /\ zW' = r.u.d
    /\ zPc' = "done"
    /\ UNCHANGED notComp
    /\ UNCHANGED <<zCfg, zReq, zMode, zEtagOn, zCw, zOps>>

CompressNext ==
    \/ ETagServe
    \/ CompressServe
    \/ \E call \in CompressCalls : CompressHandlerCall(call)
    \/ CompressReturn

(***************************************************************************)
(* PrecompressedFileServer. A file name is a sequence of tokens: the       *)
(* logical path followed by the suffix of a compressed sibling.            *)
(***************************************************************************)
AssetPath == <<"js/app.js">>
BrSibling(p) == p \o <<".br">>
GzSibling(p) == p \o <<".gz">>
StaticFiles == {AssetPath, BrSibling(AssetPath), GzSibling(AssetPath)}

\* const cacheTTL = 5 * time.Minute, in clock ticks
CacheTTL == 2

\* mime.TypeByExtension(path.Ext(clean))
TypeByExtension(p) == IF p = AssetPath THEN "application/javascript" ELSE ""

supportsBRAlways(ae) == TRUE

\* strings.Contains(ae, "br")
supportsBR(ae) == "br" \in Range(ae)
\* strings.Contains(ae, "gzip")
supportsGZ(ae) == "gzip" \in Range(ae)

NoResponse == [status |-> 0, served |-> <<>>, vary |-> <<>>,
               contentEncoding |-> "", cacheControl |-> "", contentType |-> ""]

\* http.FileServer on the rewritten request: the file, or 404
FileServe(fsys, name, w) ==
    IF name \in fsys
    THEN [w EXCEPT !.status = 200, !.served = name,
                   !.contentType = IF w.contentType = "" THEN TypeByExtension(name)
                                   ELSE w.contentType]
    ELSE [w EXCEPT !.status = 404, !.contentType = "text/plain; charset=utf-8"]

\* the headers set for a precompressed variant
Precompressed(w, p, encoding) ==
    [w EXCEPT !.contentType = IF TypeByExtension(p) # "" THEN TypeByExtension(p) ELSE @,
              !.contentEncoding = encoding,
              !.cacheControl = "public, max-age=31536000, immutable"]

\* a handler that never sets Vary
AddVaryNever(w) == w

\* w.Header().Add("Vary", "Accept-Encoding")
AddVary(w) == [w EXCEPT !.vary = Append(@, "Accept-Encoding")]

\* the requests served, each on its own goroutine
StaticReqs == {1, 2}

\* cacheKey := clean + ".br"
cacheKey == BrSibling(AssetPath)

cacheKeyGzShared == BrSibling(AssetPath)

\* cacheKeyGz := clean + ".gz"
cacheKeyGz == GzSibling(AssetPath)

NoEntry == [key |-> <<>>, found |-> FALSE, exists |-> FALSE, time |-> 0]

\* entry, exists := cache[key], under the read lock
Lookup(cache, key) ==
    IF key \in DOMAIN cache
    THEN [key |-> key, found |-> TRUE, exists |-> cache[key].exists,
          time |-> cache[key].time]
    ELSE [NoEntry EXCEPT !.key = key]

\* exists && time.Since(entry.time) < cacheTTL
Fresh(e, now) == e.found /\ now - e.time < CacheTTL

\* the version without the cache: fs.Stat on every request
UncachedServe(fsys, method, ae) ==
    IF method \notin {"GET", "HEAD"}
    THEN FileServe(fsys, AssetPath, NoResponse)
    ELSE LET w0 == AddVary(NoResponse)
         IN  IF supportsBR(ae) /\ BrSibling(AssetPath) \in fsys
             THEN FileServe(fsys, BrSibling(AssetPath),
                            Precompressed(w0, AssetPath, "br"))
             ELSE IF supportsGZ(ae) /\ GzSibling(AssetPath) \in fsys
             THEN FileServe(fsys, GzSibling(AssetPath),
                            Precompressed(w0, AssetPath, "gzip"))
             ELSE FileServe(fsys, AssetPath, w0)

\* The handler PrecompressedFileServer returns runs for each request on the
\* request's goroutine, one step per access to the cache, the clock or the
\* file system, so that other requests and the clock move in between.

\* A request enters the handler: other methods go to the file server at
\* once; for GET and HEAD the Vary header is added.
StaticBegin(r, method, ae) ==
    /\ pPc[r] = "new"
    /\ pReq' = [pReq EXCEPT ![r] = [method |-> method, ae |-> ae]]
    /\ IF method \notin {"GET", "HEAD"}
       THEN /\ pResp' = [pResp EXCEPT ![r] = FileServe(sFS, AssetPath, NoResponse)]
            /\ pPc' = [pPc EXCEPT ![r] = "done"]
       ELSE /\ pResp' = [pResp EXCEPT ![r] = AddVary(NoResponse)]
            /\ pPc' = [pPc EXCEPT ![r] = "readBr"]
    /\ UNCHANGED notStatic
    /\ UNCHANGED <<sFS, sCache, sClock, pEntry, pExists, pUse>>

\* RLock; entry, exists := cache[cacheKey]; RUnlock
StaticReadBr(r) ==
    /\ pPc[r] = "readBr"
    /\ pEntry' = [pEntry EXCEPT ![r] = Lookup(sCache, cacheKey)]
    /\ pPc' = [pPc EXCEPT ![r] = "br"]
    /\ UNCHANGED notStatic
    /\ UNCHANGED <<sFS, sCache, sClock, pReq, pResp, pExists, pUse>>

\* if supportsBR: the cached answer while the entry read is fresh at the
\* clock's time now, otherwise on to fs.Stat. The copy of the entry is not
\* read again.
StaticCheckBr(r) ==
    /\ pPc[r] = "br"
    /\ IF ~supportsBR(pReq[r].ae)
       THEN /\ pPc' = [pPc EXCEPT ![r] = "readGz"]
            /\ UNCHANGED <<pExists, pUse>>
       ELSE IF Fresh(pEntry[r], sClock)
       THEN /\ pExists' = [pExists EXCEPT ![r] = pEntry[r].exists]
            /\ pUse' = [pUse EXCEPT ![r] = @ \cup
                           {[for |-> BrSibling(AssetPath), from |-> pEntry[r].key,
                             age |-> sClock - pEntry[r].time]}]
            /\ pPc' = [pPc EXCEPT ![r] = "brKnown"]
       ELSE /\ pPc' = [pPc EXCEPT ![r] = "statBr"]
            /\ UNCHANGED <<pExists, pUse>>
    /\ pEntry' = [pEntry EXCEPT ![r] = NoEntry]
    /\ UNCHANGED notStatic
    /\ UNCHANGED <<sFS, sCache, sClock, pReq, pResp>>

\* fs.Stat(root, clean+".br"): the file system is asked
StaticStatBr(r) ==
    /\ pPc[r] = "statBr"
    /\ pExists' = [pExists EXCEPT ![r] = BrSibling(AssetPath) \in sFS]
    /\ pPc' = [pPc EXCEPT ![r] = "writeBr"]
    /\ UNCHANGED notStatic
    /\ UNCHANGED <<sFS, sCache, sClock, pReq, pEntry, pResp, pUse>>

\* Lock; cache[cacheKey] = cacheEntry{brExists, time.Now()}; Unlock
StaticWriteBr(r) ==
    /\ pPc[r] = "writeBr"
    /\ sCache' = Put(sCache, cacheKey, [exists |-> pExists[r], time |-> sClock])
    /\ pPc' = [pPc EXCEPT ![r] = "brKnown"]
    /\ UNCHANGED notStatic
    /\ UNCHANGED <<sFS, sClock, pReq, pEntry, pResp, pExists, pUse>>

\* if brExists: set the headers and serve the .br file; otherwise go on to
\* the .gz sibling
StaticServeBr(r) ==
    /\ pPc[r] = "brKnown"
    /\ IF pExists[r]
       THEN /\ pResp' = [pResp EXCEPT ![r] =
                            FileServe(sFS, BrSibling(AssetPath),
                                      Precompressed(@, AssetPath, "br"))]
            /\ pPc' = [pPc EXCEPT ![r] = "done"]
       ELSE /\ pResp' = pResp
            /\ pPc' = [pPc EXCEPT ![r] = "readGz"]
    /\ pExists' = [pExists EXCEPT ![r] = FALSE]
    /\ UNCHANGED notStatic
    /\ UNCHANGED <<sFS, sCache, sClock, pReq, pEntry, pUse>>

\* RLock; entryGz, existsGz := cache[cacheKeyGz]; RUnlock
StaticReadGz(r) ==
    /\ pPc[r] = "readGz"
    /\ pEntry' = [pEntry EXCEPT ![r] = Lookup(sCache, cacheKeyGz)]
    /\ pPc' = [pPc EXCEPT ![r] = "gz"]
    /\ UNCHANGED notStatic
    /\ UNCHANGED <<sFS, sCache, sClock, pReq, pResp, pExists, pUse>>

\* if supportsGZ: the cached answer while the entry read is fresh at the
\* clock's time now, otherwise on to fs.Stat
StaticCheckGz(r) ==
    /\ pPc[r] = "gz"
    /\ IF ~supportsGZ(pReq[r].ae)
       THEN /\ pPc' = [pPc EXCEPT ![r] = "gzKnown"]
            /\ UNCHANGED <<pExists, pUse>>
       ELSE IF Fresh(pEntry[r], sClock)
       THEN /\ pExists' = [pExists EXCEPT ![r] = pEntry[r].exists]
            /\ pUse' = [pUse EXCEPT ![r] = @ \cup
                           {[for |-> GzSibling(AssetPath), from |-> pEntry[r].key,
                             age |-> sClock - pEntry[r].time]}]
            /\ pPc' = [pPc EXCEPT ![r] = "gzKnown"]
       ELSE /\ pPc' = [pPc EXCEPT ![r] = "statGz"]
            /\ UNCHANGED <<pExists, pUse>>
    /\ pEntry' = [pEntry EXCEPT ![r] = NoEntry]
    /\ UNCHANGED notStatic
    /\ UNCHANGED <<sFS, sCache, sClock, pReq, pResp>>

\* fs.Stat(root, clean+".gz"): the file system is asked
StaticStatGz(r) ==
    /\ pPc[r] = "statGz"
    /\ pExists' = [pExists EXCEPT ![r] = GzSibling(AssetPath) \in sFS]
    /\ pPc' = [pPc EXCEPT ![r] = "writeGz"]
    /\ UNCHANGED notStatic
    /\ UNCHANGED <<sFS, sCache, sClock, pReq, pEntry, pResp, pUse>>

\* Lock; cache[cacheKeyGz] = cacheEntry{gzExists, time.Now()}; Unlock
StaticWriteGz(r) ==
    /\ pPc[r] = "writeGz"
    /\ sCache' = Put(sCache, cacheKeyGz, [exists |-> pExists[r], time |-> sClock])
    /\ pPc' = [pPc EXCEPT ![r] = "gzKnown"]
    /\ UNCHANGED notStatic
    /\ UNCHANGED <<sFS, sClock, pReq, pEntry, pResp, pExists, pUse>>

\* if gzExists: set the headers and serve the .gz file; otherwise serve the
\* original asset
StaticServeGz(r) ==
    /\ pPc[r] = "gzKnown"
    /\ pResp' = [pResp EXCEPT ![r] =
                    IF pExists[r]
                    THEN FileServe(sFS, GzSibling(AssetPath),
                                   Precompressed(@, AssetPath, "gzip"))
                    ELSE FileServe(sFS, AssetPath, @)]
    /\ pPc' = [pPc EXCEPT ![r] = "done"]
    /\ pExists' = [pExists EXCEPT ![r] = FALSE]
    /\ UNCHANGED notStatic
    /\ UNCHANGED <<sFS, sCache, sClock, pReq, pEntry, pUse>>

\* time passes
StaticTick ==
    /\ sClock < MaxTime
    /\ sClock' = sClock + 1
    /\ UNCHANGED notStatic
    /\ UNCHANGED <<sFS, sCache, pPc, pReq, pEntry, pResp, pExists, pUse>>

StaticMethods == {"GET", "HEAD", "POST"}
StaticAcceptEncodings == {<<>>, <<"br">>, <<"gzip">>, <<"gzip", ", ", "deflate", ", ", "br">>}

\* GET with each Accept-Encoding; HEAD and POST, one Accept-Encoding each
StaticRequests ==
    [method : {"GET"}, ae : StaticAcceptEncodings]
    \cup [method : {"HEAD"}, ae : {<<"br">>}]
    \cup [method : {"POST"}, ae : {<<"gzip">>}]

StaticNext ==
    \/ \E r \in StaticReqs, q \in StaticRequests : StaticBegin(r, q.method, q.ae)
    \/ \E r \in StaticReqs : StaticReadBr(r)
    \/ \E r \in StaticReqs : StaticCheckBr(r)
    \/ \E r \in StaticReqs : StaticStatBr(r)
    \/ \E r \in StaticReqs : StaticWriteBr(r)
    \/ \E r \in StaticReqs : StaticServeBr(r)
    \/ \E r \in StaticReqs : StaticReadGz(r)
    \/ \E r \in StaticReqs : StaticCheckGz(r)
    \/ \E r \in StaticReqs : StaticStatGz(r)
    \/ \E r \in StaticReqs : StaticWriteGz(r)
    \/ \E r \in StaticReqs : StaticServeGz(r)
    \/ StaticTick

(***************************************************************************)
(* The asset manager (internal/assets) and the startup sequence of main.   *)
(* A path is a sequence of tokens, "/" being one, so that                  *)
(* strings.TrimPrefix(path, "/") is computed and not assumed.              *)
(***************************************************************************)
TrimPrefix(s, prefix) ==
    IF Len(s) >= 1 /\ s[1] = prefix THEN Tail(s) ELSE s

\* manifest keys and the paths templates and tests ask for
ManifestKeys == {<<"a.css">>, <<"/", "a.css">>, <<"A.css">>}
AssetPaths == ManifestKeys \cup {<<"/", "A.css">>, <<"b.js">>}

\* AssetInfo: the versioned path and the SRI hash of one asset
AssetInfo(key) == [Path |-> <<"versioned">> \o key, SRI |-> <<"sha384">> \o key]
NoAssetInfo == [Path |-> <<>>, SRI |-> <<>>]
EmptyManifest == [k \in {} |-> NoAssetInfo]
Manifests == {[k \in K |-> AssetInfo(k)] : K \in SUBSET ManifestKeys}

\* what fs.ReadFile and json.Unmarshal make of one file: unreadable,
\* readable but not JSON, or a wrapper whose "files" map is `files`
FileMissing == [readable |-> FALSE, parses |-> FALSE, files |-> EmptyManifest]
FileGarbage == [readable |-> TRUE, parses |-> FALSE, files |-> EmptyManifest]
FileOf(m) == [readable |-> TRUE, parses |-> TRUE, files |-> m]
ManifestFiles ==
    {FileMissing, FileGarbage}
        \cup {FileOf(m) : m \in {n \in Manifests : <<"A.css">> \notin DOMAIN n}}

\* loadManifest's possiblePaths, in the order tried
possiblePaths == 1..3

NoFS == [static |-> [i \in possiblePaths |-> FileMissing],
         templates |-> FALSE, walk |-> FALSE, listen |-> FALSE]

\* loadManifest without the len(wrapper.Files) == 0 check
loadManifestNoEmptyCheck(staticFS) ==
    LET readable == {i \in possiblePaths : staticFS[i].readable} IN
    IF readable = {} THEN [err |-> TRUE, files |-> EmptyManifest]
    ELSE LET used == staticFS[CHOOSE i \in readable : \A j \in readable : i <= j] IN
         IF ~used.parses THEN [err |-> TRUE, files |-> EmptyManifest]
         ELSE [err |-> FALSE, files |-> used.files]

\* the first readable candidate is the manifest; it must parse and have files
loadManifest(staticFS) ==
    LET readable == {i \in possiblePaths : staticFS[i].readable} IN
    IF readable = {} THEN [err |-> TRUE, files |-> EmptyManifest]
    ELSE LET used == staticFS[CHOOSE i \in readable : \A j \in readable : i <= j] IN
         IF ~used.parses THEN [err |-> TRUE, files |-> EmptyManifest]
         ELSE IF DOMAIN used.files = {} THEN [err |-> TRUE, files |-> EmptyManifest]
         ELSE [err |-> FALSE, files |-> used.files]

NoManager == [manifest |-> EmptyManifest, logger |-> FALSE]

\* assets.New
AssetsNew(staticFS, logger) ==
    LET m == loadManifest(staticFS) IN
    IF m.err THEN [err |-> TRUE, am |-> NoManager]
    ELSE [err |-> FALSE, am |-> [manifest |-> m.files, logger |-> logger]]

\* a lookup's result; a field the operation does not return keeps its zero value
NoResult == [op |-> "none", path |-> <<>>, str |-> <<>>, info |-> NoAssetInfo,
             ok |-> FALSE, panicked |-> FALSE]

pathsToTry(path) == <<path, TrimPrefix(path, "/")>>

\* the first of pathsToTry that is a manifest key; 0: none
FirstHit(am, path) ==
    LET hits == {i \in 1..2 : pathsToTry(path)[i] \in DOMAIN am.manifest} IN
    IF hits = {} THEN 0 ELSE CHOOSE i \in hits : \A j \in hits : i <= j

\* AssetURL: the record's Path, else the path; am.logger.Warn on a nil
\* logger is a nil-pointer dereference
AssetURL(am, path) ==
    LET i == FirstHit(am, path) IN
    IF i # 0
    THEN [NoResult EXCEPT !.op = "AssetURL", !.path = path,
                          !.str = am.manifest[pathsToTry(path)[i]].Path]
    ELSE IF ~am.logger
    THEN [NoResult EXCEPT !.op = "AssetURL", !.path = path, !.panicked = TRUE]
    ELSE [NoResult EXCEPT !.op = "AssetURL", !.path = path, !.str = path]

AssetSRI(am, path) ==
    LET i == FirstHit(am, path) IN
    IF i # 0
    THEN [NoResult EXCEPT !.op = "AssetSRI", !.path = path,
                          !.str = am.manifest[pathsToTry(path)[i]].SRI]
    ELSE IF ~am.logger
    THEN [NoResult EXCEPT !.op = "AssetSRI", !.path = path, !.panicked = TRUE]
    ELSE [NoResult EXCEPT !.op = "AssetSRI", !.path = path]

HasAsset(am, path) ==
    [NoResult EXCEPT !.op = "HasAsset", !.path = path, !.ok = FirstHit(am, path) # 0]

GetAssetInfo(am, path) ==
    LET i == FirstHit(am, path) IN
    IF i # 0
    THEN [NoResult EXCEPT !.op = "GetAssetInfo", !.path = path, !.ok = TRUE,
                          !.info = am.manifest[pathsToTry(path)[i]]]
    ELSE [NoResult EXCEPT !.op = "GetAssetInfo", !.path = path]

\* ---- main, from step 4 on ----
\* assets.New(web.StaticFS, runtimeLogger); os.Exit(1) on error
MainAssetsNew ==
    /\ aPc = "assets"
    /\ LET r == AssetsNew(aFS.static, TRUE) IN
       IF r.err
       THEN aPc' = "exited" /\ UNCHANGED aManager
       ELSE aPc' = "render" /\ aManager' = r.am
    /\ UNCHANGED <<aFS, aOut>>
    /\ UNCHANGED notAssets

\* render.New parses the templates; os.Exit(1) on error
MainRenderNew ==
    /\ aPc = "render"
    /\ aPc' = IF aFS.templates THEN "app" ELSE "exited"
    /\ UNCHANGED <<aFS, aManager, aOut>>
    /\ UNCHANGED notAssets

\* app.New: BuildAssetVersions, retried once, panics when it fails again
MainAppNew ==
    /\ aPc = "app"
    /\ aPc' = IF aFS.walk THEN "serve" ELSE "exited"
    /\ UNCHANGED <<aFS, aManager, aOut>>
    /\ UNCHANGED notAssets

\* srv.ListenAndServeTLS in its goroutine; an error ends the process
MainListen ==
    /\ aPc = "serve"
    /\ aPc' = IF aFS.listen THEN "listening" ELSE "exited"
    /\ UNCHANGED <<aFS, aManager, aOut>>
    /\ UNCHANGED notAssets

\* ---- the lookups: from a template ("asset", "sri") of a request being
\* served, or on an AssetManager built directly ----
Serving == aPc \in {"listening", "constructed"}

AssetURLCall(path) ==
    /\ Serving
    /\ aOut' = AssetURL(aManager, path)
    /\ UNCHANGED <<aFS, aPc, aManager>>
    /\ UNCHANGED notAssets

AssetSRICall(path) ==
    /\ Serving
    /\ aOut' = AssetSRI(aManager, path)
    /\ UNCHANGED <<aFS, aPc, aManager>>
    /\ UNCHANGED notAssets

HasAssetCall(path) ==
    /\ aPc = "constructed"
    /\ aOut' = HasAsset(aManager, path)
    /\ UNCHANGED <<aFS, aPc, aManager>>
    /\ UNCHANGED notAssets

GetAssetInfoCall(path) ==
    /\ aPc = "constructed"
    /\ aOut' = GetAssetInfo(aManager, path)
    /\ UNCHANGED <<aFS, aPc, aManager>>
    /\ UNCHANGED notAssets

StartupNext ==
    \/ MainAssetsNew
    \/ MainRenderNew
    \/ MainAppNew
    \/ MainListen
    \/ \E path \in AssetPaths : AssetURLCall(path)
    \/ \E path \in AssetPaths : AssetSRICall(path)

AssetManagerNext ==
    \/ \E path \in AssetPaths : AssetURLCall(path)
    \/ \E path \in AssetPaths : AssetSRICall(path)
    \/ \E path \in AssetPaths : HasAssetCall(path)
    \/ \E path \in AssetPaths : GetAssetInfoCall(path)

(***************************************************************************)
(* BuildAssetVersions (internal/app/assets.go). A path is a sequence of    *)
(* tokens; its last token is the extension.                                *)
(***************************************************************************)
\* the files of the tree, in the lexical order fs.WalkDir visits them
WalkOrder == << <<"css", "/", "a", ".css">>,
                <<"doc", "/", "c", ".txt">>,
                <<"js", "/", "b", ".JS">> >>

\* the suffixes hasAnySuffix is called with
VersionedSuffixes == {".js", ".css", ".svg", ".json", ".wasm", ".png", ".jpg",
                      ".jpeg", ".gif", "webp", ".avif", ".ico", "woff", ".ttf",
                      ".woff2"}

ToLower(token) == IF token = ".JS" THEN ".js" ELSE token

hasAnySuffix(s, suff) == \E x \in suff : ToLower(s[Len(s)]) = x

ReplaceAll(s, old, new) == [i \in 1..Len(s) |-> IF s[i] = old THEN new ELSE s[i]]

\* "/static/" + strings.TrimPrefix(p, "./"), backslashes replaced
UrlPath(p) == ReplaceAll(<<"/static/">> \o TrimPrefix(p, "./"), "\\", "/")

\* The SHA-256 digests of the contents the model's files can hold (and of
\* every content of up to four bytes that are 0 or 1), each as
\* hex.EncodeToString writes it, in eight groups of eight hex digits.
Sha256Table ==
    <<>> :>
        <<"e3b0c442", "98fc1c14", "9afbf4c8", "996fb924", "27ae41e4", "649b934c", "a495991b", "7852b855">> @@
    <<0>> :>
        <<"6e340b9c", "ffb37a98", "9ca544e6", "bb780a2c", "78901d3f", "b3373876", "8511a306", "17afa01d">> @@
    <<1>> :>
        <<"4bf5122f", "344554c5", "3bde2ebb", "8cd2b7e3", "d1600ad6", "31c385a5", "d7cce23c", "7785459a">> @@
    <<216>> :>
        <<"af193a8c", "dcd0e3fb", "39e71147", "e59efa5c", "ad40763d", "2611f5be", "ff34a274", "f514362f">> @@
    <<0, 0>> :>
        <<"96a296d2", "24f285c6", "7bee93c3", "0f8a3091", "57f0daa3", "5dc5b87e", "410b7863", "0a09cfc7">> @@
    <<0, 1>> :>
        <<"b413f47d", "13ee2fe6", "c845b2ee", "141af81d", "e858df4e", "c549a58b", "7970bb96", "645bc8d2">> @@
    <<0, 216>> :>
        <<"205022e3", "428b7c82", "76cf247b", "36e4e512", "db5651e5", "cb3472c2", "53d9ee89", "3a8ac750">> @@
    <<1, 0>> :>
        <<"47dc540c", "94ceb704", "a23875c1", "1273e16b", "b0b8a87a", "ed84de91", "1f213356", "8115f254">> @@
    <<1, 1>> :>
        <<"9dcf97a1", "84f32623", "d11a7312", "4ceb99a5", "709b0837", "21e878a1", "6d78f596", "718ba7b2">> @@
    <<1, 216>> :>
        <<"4a986896", "7003d43d", "df0f042f", "7746934a", "6e27d346", "4b9b32ac", "9d93bab4", "2b295696">> @@
    <<216, 0>> :>
        <<"6e6535d2", "9be7bfac", "2971dc08", "53620d73", "9dd43a62", "c41409d2", "1d39ccb9", "b29e224b">> @@
    <<216, 1>> :>
        <<"124e73fb", "267d800a", "aba112bc", "fbb5598e", "4f5737ed", "c9a394e8", "f7dc3fb8", "d3f70267">> @@
    <<0, 0, 0>> :>
        <<"709e80c8", "8487a241", "1e1ee4df", "b9f22a86", "1492d20c", "4765150c", "0c794abd", "70f8147c">> @@
    <<0, 0, 1>> :>
        <<"cf7605ed", "1bc735f6", "c8255541", "54627467", "e1cac9df", "54cee869", "9218ed43", "4603c568">> @@
    <<0, 1, 0>> :>
        <<"faee9357", "63044f12", "4d752675", "5a5058a3", "3f9402a5", "95994d59", "eddd4be8", "546ff201">> @@
    <<0, 1, 1>> :>
        <<"fbb59ed1", "0e9cd4ff", "45a12c5b", "b92cbd80", "df984ba1", "fe60f26a", "30febf21", "8e2f0f5e">> @@
    <<1, 0, 0>> :>
        <<"fb50dc07", "17ff266c", "f9baf82b", "1ce7a1c2", "ef6d9247", "859680b1", "1a19fb70", "77f5f222">> @@
    <<1, 0, 1>> :>
        <<"85f90dfe", "a1d8027e", "1463e5ca", "971a2501", "10a20df0", "119d204a", "74220bc6", "3516d15b">> @@
    <<1, 1, 0>> :>
        <<"9f44ac6a", "cb8a37b0", "0b615dc8", "9259d306", "035be82d", "ee7db2b4", "72e4c483", "26195440">> @@
    <<1, 1, 1>> :>
        <<"75c8fd04", "ad916aec", "3e3d5cb7", "6a452b11", "6b3d4d09", "12a0a485", "e9fb8e3d", "240e210c">> @@
    <<0, 0, 0, 0>> :>
        <<"df3f6198", "04a92fdb", "4057192d", "c43dd748", "ea778adc", "52bc498c", "e80524c0", "14b81119">> @@
    <<0, 0, 0, 1>> :>
        <<"b40711a8", "8c703975", "6fb8a738", "27eabe2c", "0fe5a034", "6ca7e0a1", "04adc0fc", "764f528d">> @@
    <<0, 0, 0, 216>> :>
        <<"3e77cc48", "555d7e96", "04d67329", "1316a884", "b9630737", "f9b7f0a7", "ca9f2821", "23c2da93">> @@
    <<0, 0, 1, 0>> :>
        <<"6b1e73a0", "094b7b81", "2d3b9e22", "cffb4f82", "39319847", "522c4fa1", "03753b69", "50020f93">> @@
    <<0, 0, 1, 1>> :>
        <<"4afc7d98", "51818033", "1a55e2f7", "b2d03f93", "c15d1c24", "afc976cd", "fb5737e0", "2a190203">> @@
    <<0, 0, 216, 0>> :>
        <<"ba16c2eb", "7075c5d1", "3c627561", "16a19029", "40da909f", "b6d7e8e2", "84700ea5", "9af16576">> @@
    <<0, 1, 0, 0>> :>
        <<"bf5e8ffa", "51a9e748", "985800c1", "d3d7f1a2", "a6ae7435", "136593ca", "8d9637e3", "f87c699c">> @@
    <<0, 1, 0, 1>> :>
        <<"76cc5805", "dab9b4ea", "cefdb477", "f498020f", "d82bccdb", "c9c6a2d9", "ce10586a", "c85512b4">> @@
    <<0, 1, 1, 0>> :>
        <<"d5e2d2ac", "07b741be", "58f6b9e5", "0ede5fdc", "f16f3e80", "53ecef93", "50e7744b", "0d8bd90c">> @@
    <<0, 1, 1, 1>> :>
        <<"cbd95ae5", "ef881069", "1e3fc7ef", "b7c39ef9", "ffb66113", "5d858aa0", "ccc81fc7", "4a0160ae">> @@
    <<0, 83, 99, 3>> :>
        <<"474b87be", "7346b384", "5ea1a336", "0a6445b0", "6080dbca", "d42472f7", "5275f4a1", "6e052b0e">> @@
    <<0, 216, 0, 0>> :>
        <<"12c44577", "d0f88b21", "2fa56ded", "65713894", "acfd6d35", "26d548b5", "af5064ca", "32768c45">> @@
    <<1, 0, 0, 0>> :>
        <<"67abdd72", "1024f0ff", "4e0b3f4c", "2fc13bc5", "bad42d0b", "7851d456", "d88d203d", "15aaa450">> @@
    <<1, 0, 0, 1>> :>
        <<"afa75181", "06309c22", "d325df6d", "2663249d", "158d2f36", "f1976269", "d6d4104d", "9198a108">> @@
    <<1, 0, 1, 0>> :>
        <<"507503b5", "1960cced", "a8d92490", "4fb85377", "fe7d177f", "b8dfcf56", "b24e4557", "644ed486">> @@
    <<1, 0, 1, 1>> :>
        <<"52a5c4a1", "0657220c", "ac05c63a", "dfa923c7", "771c55d8", "68a58ee3", "60eb3d15", "11985c3e">> @@
    <<1, 0, 99, 3>> :>
        <<"f7f9533b", "af8484fe", "f376e48d", "04dddaba", "01992c0f", "645063cc", "bec9852a", "166ed77c">> @@
    <<1, 1, 0, 0>> :>
        <<"a0454a24", "dd4bc418", "448ca193", "20519ea3", "fe544fa1", "a910868b", "62ca2106", "14f119f8">> @@
    <<1, 1, 0, 1>> :>
        <<"252c0b6b", "080fa045", "acfcd143", "7f693f3b", "e2be2ac8", "223ea525", "d492fa19", "ab028942">> @@
    <<1, 1, 1, 0>> :>
        <<"f896c3a5", "f9841b6e", "1f0a22bd", "35a6a1bc", "5efb28aa", "a23b6630", "1ec8098c", "e57cf99a">> @@
    <<1, 1, 1, 1>> :>
        <<"27ecd0a5", "98e76f8a", "2fd264d4", "27df0a11", "9903e8ea", "e384e478", "90254175", "6f089dd1">> @@
    <<1, 1, 99, 3>> :>
        <<"0f91a7be", "0a70ce30", "dbb38971", "ac14871e", "4e6d6cd1", "076df93b", "dfa53429", "40999187">> @@
    <<1, 83, 0, 3>> :>
        <<"8668a3c0", "32771178", "b6f91bc0", "08f13e5f", "0012da72", "0ff75e1c", "35aec4a0", "b88f24a0">> @@
    <<1, 83, 1, 3>> :>
        <<"f6a631f8", "2a213e88", "e3c93c69", "477fc4f4", "df292a93", "7431b423", "e98097a1", "d46e2190">> @@
    <<1, 83, 99, 0>> :>
        <<"6c2cd8ff", "01e32106", "df661df6", "fc764ea6", "937a5558", "c1d76e6b", "8cb26127", "e03a0917">> @@
    <<1, 83, 99, 1>> :>
        <<"ac4bcac0", "f00d8656", "a3e60043", "00b2b7ef", "8419895f", "c05dc249", "45adced8", "58b1a733">> @@
    <<1, 83, 99, 3>> :>
        <<"16a5b08f", "70360ced", "60f331a2", "66258fb3", "0209abf9", "852f1ff1", "6e09811d", "3043b383">> @@
    <<1, 83, 99, 216>> :>
        <<"16a5b08f", "6d9db262", "7a2d15f2", "32a46b12", "95051882", "a7f1382d", "cc167fc6", "ed014d06">> @@
    <<1, 83, 216, 3>> :>
        <<"13dcbacb", "7904dbe5", "470fd4f8", "371edeee", "f532c39e", "7467fbe0", "e4702fbf", "518e014d">> @@
    <<1, 216, 99, 3>> :>
        <<"b1bda172", "cbcc7eca", "0185fbab", "2adedfe0", "1bd0f876", "39a856f8", "df742d18", "af81baf7">> @@
    <<216, 0, 0, 0>> :>
        <<"305b0569", "ad0b6570", "03b5c996", "1c05d9fe", "ba78bf95", "1b71df1a", "412ab18f", "6cbd5d1e">> @@
    <<216, 83, 99, 3>> :>
        <<"9a214069", "6ec8306d", "a9923e1c", "ebd5eff4", "98389290", "24576805", "aebe7b36", "9eaaf792">> @@
    <<0, 0, 0, 0, 0>> :>
        <<"8855508a", "ade16ec5", "73d21e6a", "485dfd0a", "7624085c", "1a14b5ec", "dd6485de", "0c6839a4">> @@
    <<0, 0, 0, 0, 1>> :>
        <<"15f2f1a4", "339f5f2a", "313b9501", "5cad8124", "d054a171", "ac2f31cf", "529dda7c", "fb6a38b4">> @@
    <<0, 0, 0, 0, 216>> :>
        <<"f98a29f6", "862b1e6d", "f00c5a4f", "dadbc46e", "5e0279ec", "18ee6936", "8f5f1da0", "cf2bc8c5">> @@
    <<0, 0, 0, 1, 0>> :>
        <<"060dc63e", "5595dffb", "d161c9ec", "98bc06fc", "f67cb22e", "2e75ecdf", "00038213", "88aeee4d">> @@
    <<0, 0, 0, 216, 0>> :>
        <<"0fb09e6a", "122617a4", "5044bed2", "e1a0df1d", "a651f12f", "92765c77", "c8e6ceb6", "d9335661">> @@
    <<0, 0, 1, 0, 0>> :>
        <<"00d47134", "29e4fd21", "597e0235", "5b1eb30b", "dae1225a", "163eb7e6", "55328c75", "a877bc64">> @@
    <<0, 0, 216, 0, 0>> :>
        <<"3441f6d0", "d8d47d39", "d6df37ea", "cb84d9b9", "75b8a1e6", "393a095d", "01e948a8", "c73ab98a">> @@
    <<0, 1, 0, 0, 0>> :>
        <<"86f96494", "99b00806", "56c014aa", "244f6548", "64bad414", "5c8513e9", "c8409f43", "7d4a2b3b">> @@
    <<0, 216, 0, 0, 0>> :>
        <<"3a429f24", "00d59ab7", "b2cd0613", "5ff8d65f", "c1bd27be", "1081f3b3", "ca9bcfc3", "c339ec85">> @@
    <<1, 0, 0, 0, 0>> :>
        <<"957b88b1", "2730e646", "e0f33d36", "18b77dfa", "579e8231", "e3c59c71", "04be7165", "611c8027">> @@
    <<216, 0, 0, 0, 0>> :>
        <<"4e4d072e", "8ffd8900", "ca0f20d4", "25d1cd3c", "6029035d", "3393dcbf", "567c5a03", "6b71eca4">> @@
    <<0, 0, 0, 0, 0, 0>> :>
        <<"b0f66adc", "83641586", "65686681", "3fd9dd0b", "8ebb6379", "6075661b", "a45d1aa8", "089e1d44">> @@
    <<0, 0, 0, 0, 0, 1>> :>
        <<"186128bf", "8a4d60eb", "4b51102a", "e2a2cb6a", "0b800119", "77582480", "395a4544", "54bec7e1">> @@
    <<0, 0, 0, 0, 0, 216>> :>
        <<"b4e3bc19", "c7b04df7", "ddbd2803", "27bb69b6", "f9cc8a65", "784f3a1b", "922c515b", "54b88697">> @@
    <<0, 0, 0, 0, 1, 0>> :>
        <<"588611f6", "5741c171", "a3d92c1d", "5343f5dd", "67f4fc47", "2fc56f01", "c9bc568f", "5ac2a623">> @@
    <<0, 0, 0, 0, 216, 0>> :>
        <<"60bb3562", "6a270d16", "3875cbbd", "ea1ea50a", "8fe3e41b", "ab2c8bf8", "62b93867", "92b526f8">> @@
    <<0, 0, 0, 1, 0, 0>> :>
        <<"10487d86", "ce3584e1", "56874ed9", "b2650e8d", "772a8d1f", "dbb1c911", "1bf7e2fb", "cab18ccb">> @@
    <<0, 0, 0, 216, 0, 0>> :>
        <<"8d6287c2", "27720ca8", "6e23a0e0", "84108c35", "a2ba0efe", "5d106c60", "fe9e8fa9", "e06af65a">> @@
    <<0, 0, 1, 0, 0, 0>> :>
        <<"025fc246", "f13759c1", "92cbbae2", "a68f2b59", "b6478f21", "b31a05d7", "7483a87e", "417906dd">> @@
    <<0, 0, 216, 0, 0, 0>> :>
        <<"04156162", "0754c97f", "2d34a50f", "18177b3a", "7f4c307b", "9c197813", "5e8ab10e", "7d9779b1">> @@
    <<0, 1, 0, 0, 0, 0>> :>
        <<"01cf85cf", "eb36d628", "ca2e6f58", "3fa2331b", "e029b6b2", "8e877e10", "08fb3f86", "2306c086">> @@
    <<0, 216, 0, 0, 0, 0>> :>
        <<"a81a2580", "db1ee884", "0398a3e4", "06f95286", "aa74c458", "00d9e5d8", "bb611178", "62eae284">> @@
    <<1, 0, 0, 0, 0, 0>> :>
        <<"36c159d7", "6b52e03e", "49636360", "7c594022", "7f62f4e0", "48df344b", "050159bc", "97bba3d7">> @@
    <<216, 0, 0, 0, 0, 0>> :>
        <<"32e2a322", "1d199ad4", "5a0f20bc", "3ab0b3fb", "48c7e5db", "02c4d525", "3dbe6975", "8ed15018">>

\* hex.EncodeToString(h.Sum(nil)) for the bytes io.Copy has fed to h
Sha256Hex(content) == Sha256Table[content]

\* a fingerprint that depends on the length of the content only
SumOfSize(content) == ToString(Len(content))

\* sum := hex.EncodeToString(h.Sum(nil))[:8]: the first eight hex digits
Sum(content) == Sha256Hex(content)[1]

\* the contents with n bytes, each 0 or 1
RECURSIVE BytesOfLen(_)
BytesOfLen(n) ==
    IF n = 0 THEN {<<>>}
    ELSE {Append(b, x) : b \in BytesOfLen(n - 1), x \in {0, 1}}

Zeros(n) == [i \in 1..n |-> 0]

\* a content whose digest shares its first eight hex digits with that of
\* the content with 216 as its last byte
CollidingContent == <<1, 83, 99, 3>>

\* the contents a file has before the edit: the short ones, the one above,
\* one at the size ceiling and one over it
Contents ==
    BytesOfLen(1) \cup BytesOfLen(2)
    \cup {CollidingContent, Zeros(MaxFileSize), Zeros(MaxFileSize + 1)}

\* the values an edit writes into a byte
ByteValues == {0, 1, 216}

\* the walk function of BuildAssetVersions applied to the i-th file and on
RECURSIVE WalkFrom(_, _, _)
WalkFrom(static, i, m) ==
    IF i > Len(WalkOrder) THEN m
    ELSE LET p == WalkOrder[i] IN
         IF ~hasAnySuffix(p, VersionedSuffixes) THEN WalkFrom(static, i + 1, m)
         ELSE IF Len(static[p].bytes) > MaxFileSize THEN WalkFrom(static, i + 1, m)
         ELSE WalkFrom(static, i + 1,
                       [k \in DOMAIN m \cup {UrlPath(p)} |->
                            IF k = UrlPath(p) THEN Sum(static[p].bytes) ELSE m[k]])

BuildAssetVersions(static) == WalkFrom(static, 1, [k \in {} |-> Sum(<<>>)])

NoEdit == [op |-> "none", path |-> <<>>, at |-> 0, was |-> 0]

\* ---- a build, one edit of the tree, and a second build ----
VBuild ==
    /\ vPc \in {"new", "edited"}
    /\ vMap' = BuildAssetVersions(vTree)
    /\ vPc' = IF vPc = "new" THEN "built" ELSE "rebuilt"
    /\ UNCHANGED <<vTree, vPrevMap, vEdit>>
    /\ UNCHANGED notVersions

\* the same bytes written again: only the modification time changes
VTouch(p) ==
    /\ vPc = "built"
    /\ vTree' = [vTree EXCEPT ![p].modTime = @ + 1]
    /\ vPrevMap' = vMap
    /\ vEdit' = [op |-> "touch", path |-> p, at |-> 0, was |-> 0]
    /\ vPc' = "edited"
    /\ UNCHANGED vMap
    /\ UNCHANGED notVersions

\* one byte of one file changes
VChangeByte(p, i, v) ==
    /\ vPc = "built"
    /\ i \in 1..Len(vTree[p].bytes)
    /\ v # vTree[p].bytes[i]
    /\ vTree' = [vTree EXCEPT ![p].bytes[i] = v]
    /\ vPrevMap' = vMap
    /\ vEdit' = [op |-> "change", path |-> p, at |-> i, was |-> vTree[p].bytes[i]]
    /\ vPc' = "edited"
    /\ UNCHANGED vMap
    /\ UNCHANGED notVersions

VersionsNext ==
    \/ VBuild
    \/ \E p \in Range(WalkOrder) : VTouch(p)
    \/ \E p \in Range(WalkOrder), i \in 1..(MaxFileSize + 1), v \in ByteValues :
           VChangeByte(p, i, v)

(***************************************************************************)
(* Renderer.HTML (internal/render/render.go) and its buffer pool. Several  *)
(* requests render concurrently; a buffer is private while it is held.     *)
(***************************************************************************)
Renders == 1..MaxRenders

\* the keys of Renderer.byFile for one page, and a name that is no key
byFile == {"home.tmpl.html", "home"}
TemplateNames == {"home", "missing"}

\* what executing "base" writes, piece by piece
TemplateOutput == <<"<head>", "<main>">>

\* data is a map, a nil map or some other value
DataKinds == {"map", "nilmap", "struct"}

\* t.ExecuteTemplate fails after having written this many pieces; -1: never
FailAfter == {-1, 0, 1}

\* putBuffer without buf.Reset()
putBufferNoReset(bufs, pool, b) == [bufs |-> bufs, pool |-> pool \cup {b}]

\* putBuffer: buf.Reset(), bufferPool.Put(buf)
putBuffer(bufs, pool, b) ==
    [bufs |-> [bufs EXCEPT ![b] = <<>>], pool |-> pool \cup {b}]

\* http.NotFound
HttpNotFound(w) == HttpError(w, "404 page not found", 404)

\* HTML up to getBuffer: the lookup in byFile, then bufferPool.Get(), which
\* hands out a pooled buffer or a new one
HTMLStart(r, name) ==
    /\ bPc[r] = "new"
    /\ IF name \notin byFile
       THEN /\ bW' = [bW EXCEPT ![r] = HttpNotFound(@)]
            /\ bPc' = [bPc EXCEPT ![r] = "done"]
            /\ bExit' = [bExit EXCEPT ![r] = "notfound"]
            /\ UNCHANGED <<bPool, bBuf, bMade, bHeld, bGot>>
       ELSE /\ \/ \E b \in bPool :
                    /\ bPool' = bPool \ {b}
                    /\ bHeld' = [bHeld EXCEPT ![r] = b]
                    /\ bGot' = [bGot EXCEPT ![r] = b]
                    /\ UNCHANGED <<bBuf, bMade>>
               \/ /\ bMade' = bMade + 1
                  /\ bBuf' = [bBuf EXCEPT ![bMade + 1] = <<>>]
                  /\ bHeld' = [bHeld EXCEPT ![r] = bMade + 1]
                  /\ bGot' = [bGot EXCEPT ![r] = bMade + 1]
                  /\ UNCHANGED bPool
            /\ bPc' = [bPc EXCEPT ![r] = "exec"]
            /\ UNCHANGED <<bW, bExit>>
    /\ UNCHANGED notRender

\* HTML from the nonce lookup to its return, the deferred putBuffer included
HTMLRender(r, hasNonce, data, failAfter) ==
    /\ bPc[r] = "exec"
    /\ LET b == bHeld[r]
           panics == hasNonce /\ data = "nilmap"   \* m["cspNonce"] = nonce on a nil map
           written == IF panics THEN <<>>
                      ELSE IF failAfter = -1 THEN TemplateOutput
                      ELSE SubSeq(TemplateOutput, 1, failAfter)
           bufs == [bBuf EXCEPT ![b] = @ \o written]
           put == putBuffer(bufs, bPool, b)
       IN  /\ bBuf' = put.bufs
           /\ bPool' = put.pool
           /\ IF panics
              THEN /\ bExit' = [bExit EXCEPT ![r] = "panic"]
                   /\ UNCHANGED bW
              ELSE IF failAfter # -1
              THEN /\ bExit' = [bExit EXCEPT ![r] = "error"]
                   /\ bW' = [bW EXCEPT ![r] = HttpError(@, "template error", 500)]
              ELSE /\ bExit' = [bExit EXCEPT ![r] = "ok"]
                   /\ bW' = [bW EXCEPT ![r] =
                        DstWrite(DstWriteHeader(
                            [@ EXCEPT !.hdr = HSet(@, "Content-Type",
                                                   "text/html; charset=utf-8")],
                            200), bufs[b])]
    /\ bHeld' = [bHeld EXCEPT ![r] = 0]
    /\ bPc' = [bPc EXCEPT ![r] = "done"]
    /\ UNCHANGED <<bMade, bGot>>
    /\ UNCHANGED notRender

RenderNext ==
    \/ \E r \in Renders, name \in TemplateNames : HTMLStart(r, name)
    \/ \E r \in Renders, hasNonce \in BOOLEAN, data \in DataKinds,
          failAfter \in FailAfter : HTMLRender(r, hasNonce, data, failAfter)

(***************************************************************************)
(* The rate limiter keyed by r.RemoteAddr as the server sets it: the       *)
(* peer's IP address and the port of its connection.                       *)
(***************************************************************************)
RemoteAddrs == {"192.168.1.1:12345", "192.168.1.1:54321", "192.168.1.2:12345"}

RateAddrNext ==
    \/ Tick
    \/ \E p \in Procs, k \in RemoteAddrs : RLLock(p, k)
    \/ \E p \in Procs : RLPrune(p)
    \/ \E p \in Procs : RLReject(p)
    \/ \E p \in Procs : RLAdmit(p)

(***************************************************************************)
(* The CSP nonce: SecurityHeaders puts it into the header and the request  *)
(* context; the renderers read it from the context for the template.       *)
(***************************************************************************)
\* context keys: the values cspNonceKey{} and requestIDKey{}, and the string
\* "cspNonce"
CspNonceKey == "middleware.cspNonceKey{}"
RequestIDKey == "middleware.requestIDKey{}"
ContextKeys == {CspNonceKey, "cspNonce", RequestIDKey}
EmptyContext == [k \in ContextKeys |-> ""]

\* context.WithValue and ctx.Value
WithValue(ctx, key, val) == [ctx EXCEPT ![key] = val]
Value(ctx, key) == ctx[key]

WithCSPNonce(ctx, nonce) == WithValue(ctx, CspNonceKey, nonce)
CSPNonceFromContext(ctx) ==
    [nonce |-> Value(ctx, CspNonceKey), ok |-> Value(ctx, CspNonceKey) # ""]

NoTemplateData == [exposed |-> FALSE, nonce |-> ""]

\* SecurityHeaders up to next.ServeHTTP
NonceSecurityHeaders(r, nonce) ==
    /\ nPc[r] = "new"
    /\ nCsp' = [nCsp EXCEPT ![r] =
                   SetSecurityHeaders(EmptyHeader, nonce)["Content-Security-Policy"][1]]
    /\ nCtx' = [nCtx EXCEPT ![r] = WithCSPNonce(@, nonce)]
    /\ nPc' = [nPc EXCEPT ![r] = "handler"]
    /\ UNCHANGED nTpl
    /\ UNCHANGED notNonce

\* Renderer.HTML: m["cspNonce"] = nonce when data is a map
NonceRendererHTML(r, data) ==
    /\ nPc[r] = "handler"
    /\ LET n == CSPNonceFromContext(nCtx[r]) IN
       nTpl' = [nTpl EXCEPT ![r] =
                   IF n.ok /\ data = "map"
                   THEN [exposed |-> TRUE, nonce |-> n.nonce]
                   ELSE NoTemplateData]
    /\ nPc' = [nPc EXCEPT ![r] = "done"]
    /\ UNCHANGED <<nCsp, nCtx>>
    /\ UNCHANGED notNonce

\* TemplateRenderer.prepareTemplateDataWithRequest: Common.CSPNonce is
\* req.Context().Value("cspNonce") when that is a string, else left empty
prepareTemplateDataWithRequest(ctx) ==
    [exposed |-> TRUE, nonce |-> Value(ctx, "cspNonce")]

NonceRenderWithRequest(r) ==
    /\ nPc[r] = "handler"
    /\ nTpl' = [nTpl EXCEPT ![r] = prepareTemplateDataWithRequest(nCtx[r])]
    /\ nPc' = [nPc EXCEPT ![r] = "done"]
    /\ UNCHANGED <<nCsp, nCtx>>
    /\ UNCHANGED notNonce

NonceNext ==
    \/ \E r \in Renders, nonce \in Nonces : NonceSecurityHeaders(r, nonce)
    \/ \E r \in Renders, data \in {"map", "struct"} : NonceRendererHTML(r, data)
    \/ \E r \in Renders : NonceRenderWithRequest(r)

(***************************************************************************)
(* RequestID. Only the X-Request-ID header matters: a header is the list   *)
(* of its values, Get reads the first one and Set replaces them all.       *)
(***************************************************************************)
\* http.Header.Get and Set for one key
HeaderGet(vals) == IF vals = <<>> THEN "" ELSE vals[1]
HeaderSet(vals, v) == <<v>>

\* what a request may arrive with, and what generateRequestID may return
IncomingIDs == {<<>>, <<"">>, <<"up-1">>, <<"up-1", "up-2">>, <<"", "up-2">>}
\* (8 random bytes in hex: as many different values as there are requests)
GeneratedIDs == {"gen-" \o ToString(i) : i \in 1..MaxRenders}

WithRequestID(ctx, id) == WithValue(ctx, RequestIDKey, id)
RequestIDFromContext(ctx) ==
    [id |-> Value(ctx, RequestIDKey), ok |-> Value(ctx, RequestIDKey) # ""]

\* RequestID that generates an id for every request
RequestIDAlways(reqVals, ctx, id) ==
    [req |-> HeaderSet(reqVals, id), resp |-> <<id>>,
     ctx |-> WithRequestID(ctx, id), gen |-> TRUE]

\* RequestID up to next.ServeHTTP; id is what generateRequestID would return
RequestID(reqVals, ctx, id) ==
    LET gen == HeaderGet(reqVals) = ""
        req1 == IF gen THEN HeaderSet(reqVals, id) ELSE reqVals
        rid == HeaderGet(req1)
    IN  [req |-> req1,
         resp |-> HeaderSet(<<>>, rid),
         ctx |-> IF rid # "" THEN WithRequestID(ctx, rid) ELSE ctx,
         gen |-> gen]

RequestIDServe(r, id) ==
    /\ qPc[r] = "new"
    /\ LET out == RequestID(qReq[r], qCtx[r], id) IN
        /\ qReq' = [qReq EXCEPT ![r] = out.req]
        /\ qResp' = [qResp EXCEPT ![r] = out.resp]
        /\ qCtx' = [qCtx EXCEPT ![r] = out.ctx]
        /\ qGen' = [qGen EXCEPT ![r] = out.gen]
    /\ qPc' = [qPc EXCEPT ![r] = "done"]
    /\ UNCHANGED qIn
    /\ UNCHANGED notRequestID

RequestIDNext ==
    \E r \in Renders, id \in GeneratedIDs : RequestIDServe(r, id)

(***************************************************************************)
(* An inner handler that observes cancellation                             *)
(***************************************************************************)
\* the receive from r.Context().Done(), recorded among the handler's steps
AwaitDone == [op |-> "Done"]

\* The inner handler reaches <-r.Context().Done() and blocks on it.
HandlerAwaitDone ==
    /\ alive /\ hState = "running" /\ Len(hOps) < MaxOps
    /\ hOps' = Append(hOps, AwaitDone)
    /\ hState' = "waiting"
    /\ UNCHANGED notGuard
    /\ UNCHANGED <<hAtFire, parentDone, chain, alive, rState, gState, ctxDone, fired, crw, dst,
                   logs, opsAtSelect, hAtSelect>>

\* The context is done: the receive completes and the handler runs on.
\* Only the derived context of the guard is ever cancelled; called directly,
\* the handler holds the request's own context, which nothing cancels here.
HandlerDoneReceived ==
    /\ alive /\ hState = "waiting" /\ ctxDone
    /\ hState' = "running"
    /\ UNCHANGED notGuard
    /\ UNCHANGED <<hAtFire, parentDone, chain, alive, rState, gState, ctxDone, fired, crw, dst,
                   logs, hOps, opsAtSelect, hAtSelect>>

\* what the handler that waits for Done does once it runs on: WriteHeader and
\* Write on its writer
WaitingHandlerCalls ==
    [op : {"WriteHeader"}, code : HandlerCodes]
    \cup [op : {"Write"}, b : {<<"a">>}]

GuardWaitNext ==
    \/ RecovererServe
    \/ TimeoutServe
    \/ DirectServe
    \/ \E call \in WaitingHandlerCalls : HandlerCall(call)
    \/ HandlerAwaitDone
    \/ HandlerDoneReceived
    \/ HandlerReturn
    \/ HandlerPanic
    \/ RecovererRecover
    \/ DeadlineFire
    \/ ParentCancel
    \/ GuardTimeout
    \/ GuardFlush
    \/ RecovererReturn

(***************************************************************************)
(* Specifications                                                          *)
(***************************************************************************)
InitGuard ==
    \* the guard and Recoverer before the request arrives
    /\ chain \in {"app", "direct"}
    /\ alive = TRUE
    /\ rState = "idle"
    /\ gState = "Init"
    /\ hState = "notstarted"
    /\ ctxDone = FALSE
    /\ fired = FALSE
    /\ parentDone = FALSE
    /\ hAtFire = "none"
    /\ crw = newCapturingResponseWriter
    /\ dst = Dst0
    /\ logs = <<>>
    /\ hOps = <<>>
    /\ opsAtSelect = 0
    /\ hAtSelect = "none"
    \* the rate limiter is not exercised
    /\ limit = 1 /\ window = 1 /\ requests = [k \in {} |-> <<>>] /\ mu = "free"
    /\ clock = 0
    /\ rlpc = [p \in Procs |-> "idle"] /\ rlKey = [p \in Procs |-> "A"]
    /\ rlNow = [p \in Procs |-> 0] /\ rlPre = [p \in Procs |-> <<>>]
    /\ rlLog = <<>> /\ nextCalled = {}
    \* RealIP is not exercised
    /\ trustedProxies = <<>> /\ origPeer = <<>> /\ origAddr = <<>>
    /\ req = <<>> /\ ipDone = <<TRUE, TRUE>>
    \* the chain of app.New is not exercised
    /\ cReq = <<>> /\ cAlive = TRUE /\ cMain = <<>> /\ cMainPc = "done"
    /\ cInner = <<>> /\ cInnerPc = "none" /\ cTodo = <<>> /\ cCtxDone = FALSE
    /\ cGuard = "Init"
    /\ cCrw = newCapturingResponseWriter /\ cW = W0 /\ cStatus = 0
    /\ cLog = <<>> /\ cTrace = <<>>
    \* Compress and ETag are not exercised
    /\ zCfg = <<>> /\ zReq = <<>> /\ zPc = "done" /\ zMode = "none"
    /\ zEtagOn = FALSE /\ zEtagBody = <<>>
    /\ zCw = [shouldCompress |-> FALSE, buffer |-> <<>>]
    /\ zGz = NoGzipWriter /\ zW = W0 /\ zOps = <<>>
    \* PrecompressedFileServer is not exercised
    /\ sFS = {} /\ sCache = [k \in {} |-> <<>>] /\ sClock = 0
    /\ pPc = <<>> /\ pReq = <<>> /\ pEntry = <<>> /\ pResp = <<>>
    /\ pExists = <<>> /\ pUse = <<>>
    \* the asset manager is not exercised
    /\ aFS = NoFS /\ aPc = "exited" /\ aManager = NoManager /\ aOut = NoResult
    \* BuildAssetVersions is not exercised
    /\ vTree = <<>> /\ vPc = "rebuilt" /\ vMap = <<>> /\ vPrevMap = <<>>
    /\ vEdit = NoEdit
    \* Renderer.HTML is not exercised
    /\ bPool = {} /\ bBuf = <<>> /\ bMade = 0 /\ bPc = <<>> /\ bHeld = <<>>
    /\ bW = <<>> /\ bExit = <<>> /\ bGot = <<>>
    \* the CSP nonce is not exercised
    /\ nPc = <<>> /\ nCsp = <<>> /\ nCtx = <<>> /\ nTpl = <<>>
    \* RequestID is not exercised
    /\ qPc = <<>> /\ qIn = <<>> /\ qReq = <<>> /\ qResp = <<>> /\ qCtx = <<>>
    /\ qGen = <<>>

InitRate ==
    \* a fresh RateLimiter (NewRateLimiter)
    /\ limit \in Limits
    /\ window \in Windows
    /\ requests = [k \in {} |-> <<>>]
    /\ mu = "free"
    /\ clock = 0
    /\ rlpc = [p \in Procs |-> "idle"]
    /\ rlKey = [p \in Procs |-> "A"]
    /\ rlNow = [p \in Procs |-> 0]
    /\ rlPre = [p \in Procs |-> <<>>]
    /\ rlLog = <<>>
    /\ nextCalled = {}
    \* the guard is not exercised
    /\ chain = "app" /\ alive = TRUE /\ rState = "idle" /\ gState = "Init"
    /\ hState = "notstarted" /\ ctxDone = FALSE /\ fired = FALSE
    /\ parentDone = FALSE
    /\ hAtFire = "none"
    /\ crw = newCapturingResponseWriter /\ dst = Dst0 /\ logs = <<>>
    /\ hOps = <<>> /\ opsAtSelect = 0 /\ hAtSelect = "none"
    \* RealIP is not exercised
    /\ trustedProxies = <<>> /\ origPeer = <<>> /\ origAddr = <<>>
    /\ req = <<>> /\ ipDone = <<TRUE, TRUE>>
    \* the chain of app.New is not exercised
    /\ cReq = <<>> /\ cAlive = TRUE /\ cMain = <<>> /\ cMainPc = "done"
    /\ cInner = <<>> /\ cInnerPc = "none" /\ cTodo = <<>> /\ cCtxDone = FALSE
    /\ cGuard = "Init"
    /\ cCrw = newCapturingResponseWriter /\ cW = W0 /\ cStatus = 0
    /\ cLog = <<>> /\ cTrace = <<>>
    \* Compress and ETag are not exercised
    /\ zCfg = <<>> /\ zReq = <<>> /\ zPc = "done" /\ zMode = "none"
    /\ zEtagOn = FALSE /\ zEtagBody = <<>>
    /\ zCw = [shouldCompress |-> FALSE, buffer |-> <<>>]
    /\ zGz = NoGzipWriter /\ zW = W0 /\ zOps = <<>>
    \* PrecompressedFileServer is not exercised
    /\ sFS = {} /\ sCache = [k \in {} |-> <<>>] /\ sClock = 0
    /\ pPc = <<>> /\ pReq = <<>> /\ pEntry = <<>> /\ pResp = <<>>
    /\ pExists = <<>> /\ pUse = <<>>
    \* the asset manager is not exercised
    /\ aFS = NoFS /\ aPc = "exited" /\ aManager = NoManager /\ aOut = NoResult
    \* BuildAssetVersions is not exercised
    /\ vTree = <<>> /\ vPc = "rebuilt" /\ vMap = <<>> /\ vPrevMap = <<>>
    /\ vEdit = NoEdit
    \* Renderer.HTML is not exercised
    /\ bPool = {} /\ bBuf = <<>> /\ bMade = 0 /\ bPc = <<>> /\ bHeld = <<>>
    /\ bW = <<>> /\ bExit = <<>> /\ bGot = <<>>
    \* the CSP nonce is not exercised
    /\ nPc = <<>> /\ nCsp = <<>> /\ nCtx = <<>> /\ nTpl = <<>>
    \* RequestID is not exercised
    /\ qPc = <<>> /\ qIn = <<>> /\ qReq = <<>> /\ qResp = <<>> /\ qCtx = <<>>
    /\ qGen = <<>>

InitRealIP ==
    \* the requests as they arrive at RealIP
    /\ trustedProxies \in ProxyConfigs
    /\ \E peer \in PeerLits, withPort \in BOOLEAN :
         LET addr == IF withPort THEN JoinHostPort(peer, "12345") ELSE peer
         IN  /\ origPeer = peer
             /\ origAddr = addr
             /\ \E r1 \in Requests, r2 \in Requests2 :
                  req = <<[r1 EXCEPT !.RemoteAddr = addr],
                          [r2 EXCEPT !.RemoteAddr = addr]>>
    /\ ipDone = <<FALSE, FALSE>>
    \* the guard is not exercised
    /\ chain = "app" /\ alive = TRUE /\ rState = "idle" /\ gState = "Init"
    /\ hState = "notstarted" /\ ctxDone = FALSE /\ fired = FALSE
    /\ parentDone = FALSE
    /\ hAtFire = "none"
    /\ crw = newCapturingResponseWriter /\ dst = Dst0 /\ logs = <<>>
    /\ hOps = <<>> /\ opsAtSelect = 0 /\ hAtSelect = "none"
    \* the rate limiter is not exercised
    /\ limit = 1 /\ window = 1 /\ requests = [k \in {} |-> <<>>] /\ mu = "free"
    /\ clock = 0
    /\ rlpc = [p \in Procs |-> "idle"] /\ rlKey = [p \in Procs |-> "A"]
    /\ rlNow = [p \in Procs |-> 0] /\ rlPre = [p \in Procs |-> <<>>]
    /\ rlLog = <<>> /\ nextCalled = {}
    \* the chain of app.New is not exercised
    /\ cReq = <<>> /\ cAlive = TRUE /\ cMain = <<>> /\ cMainPc = "done"
    /\ cInner = <<>> /\ cInnerPc = "none" /\ cTodo = <<>> /\ cCtxDone = FALSE
    /\ cGuard = "Init"
    /\ cCrw = newCapturingResponseWriter /\ cW = W0 /\ cStatus = 0
    /\ cLog = <<>> /\ cTrace = <<>>
    \* Compress and ETag are not exercised
    /\ zCfg = <<>> /\ zReq = <<>> /\ zPc = "done" /\ zMode = "none"
    /\ zEtagOn = FALSE /\ zEtagBody = <<>>
    /\ zCw = [shouldCompress |-> FALSE, buffer |-> <<>>]
    /\ zGz = NoGzipWriter /\ zW = W0 /\ zOps = <<>>
    \* PrecompressedFileServer is not exercised
    /\ sFS = {} /\ sCache = [k \in {} |-> <<>>] /\ sClock = 0
    /\ pPc = <<>> /\ pReq = <<>> /\ pEntry = <<>> /\ pResp = <<>>
    /\ pExists = <<>> /\ pUse = <<>>
    \* the asset manager is not exercised
    /\ aFS = NoFS /\ aPc = "exited" /\ aManager = NoManager /\ aOut = NoResult
    \* BuildAssetVersions is not exercised
    /\ vTree = <<>> /\ vPc = "rebuilt" /\ vMap = <<>> /\ vPrevMap = <<>>
    /\ vEdit = NoEdit
    \* Renderer.HTML is not exercised
    /\ bPool = {} /\ bBuf = <<>> /\ bMade = 0 /\ bPc = <<>> /\ bHeld = <<>>
    /\ bW = <<>> /\ bExit = <<>> /\ bGot = <<>>
    \* the CSP nonce is not exercised
    /\ nPc = <<>> /\ nCsp = <<>> /\ nCtx = <<>> /\ nTpl = <<>>
    \* RequestID is not exercised
    /\ qPc = <<>> /\ qIn = <<>> /\ qReq = <<>> /\ qResp = <<>> /\ qCtx = <<>>
    /\ qGen = <<>>

InitChain ==
    \* a request arrives at the handler app.New returns
    /\ cReq \in ChainRequests
    /\ cAlive = TRUE
    /\ cMain = <<>> /\ cMainPc = "in"
    /\ cInner = <<>> /\ cInnerPc = "none"
    /\ cTodo = <<>>
    /\ cCtxDone = FALSE
    /\ cGuard = "Init"
    /\ cCrw = newCapturingResponseWriter
    /\ cW = W0
    /\ cStatus = 0
    /\ cLog = <<>>
    /\ cTrace = <<>>
    \* the guard is not exercised
    /\ chain = "app" /\ alive = TRUE /\ rState = "idle" /\ gState = "Init"
    /\ hState = "notstarted" /\ ctxDone = FALSE /\ fired = FALSE
    /\ parentDone = FALSE
    /\ hAtFire = "none"
    /\ crw = newCapturingResponseWriter /\ dst = Dst0 /\ logs = <<>>
    /\ hOps = <<>> /\ opsAtSelect = 0 /\ hAtSelect = "none"
    \* the rate limiter is not exercised
    /\ limit = 1 /\ window = 1 /\ requests = [k \in {} |-> <<>>] /\ mu = "free"
    /\ clock = 0
    /\ rlpc = [p \in Procs |-> "idle"] /\ rlKey = [p \in Procs |-> "A"]
    /\ rlNow = [p \in Procs |-> 0] /\ rlPre = [p \in Procs |-> <<>>]
    /\ rlLog = <<>> /\ nextCalled = {}
    \* RealIP is not exercised
    /\ trustedProxies = <<>> /\ origPeer = <<>> /\ origAddr = <<>>
    /\ req = <<>> /\ ipDone = <<TRUE, TRUE>>
    \* Compress and ETag are not exercised
    /\ zCfg = <<>> /\ zReq = <<>> /\ zPc = "done" /\ zMode = "none"
    /\ zEtagOn = FALSE /\ zEtagBody = <<>>
    /\ zCw = [shouldCompress |-> FALSE, buffer |-> <<>>]
    /\ zGz = NoGzipWriter /\ zW = W0 /\ zOps = <<>>
    \* PrecompressedFileServer is not exercised
    /\ sFS = {} /\ sCache = [k \in {} |-> <<>>] /\ sClock = 0
    /\ pPc = <<>> /\ pReq = <<>> /\ pEntry = <<>> /\ pResp = <<>>
    /\ pExists = <<>> /\ pUse = <<>>
    \* the asset manager is not exercised
    /\ aFS = NoFS /\ aPc = "exited" /\ aManager = NoManager /\ aOut = NoResult
    \* BuildAssetVersions is not exercised
    /\ vTree = <<>> /\ vPc = "rebuilt" /\ vMap = <<>> /\ vPrevMap = <<>>
    /\ vEdit = NoEdit
    \* Renderer.HTML is not exercised
    /\ bPool = {} /\ bBuf = <<>> /\ bMade = 0 /\ bPc = <<>> /\ bHeld = <<>>
    /\ bW = <<>> /\ bExit = <<>> /\ bGot = <<>>
    \* the CSP nonce is not exercised
    /\ nPc = <<>> /\ nCsp = <<>> /\ nCtx = <<>> /\ nTpl = <<>>
    \* RequestID is not exercised
    /\ qPc = <<>> /\ qIn = <<>> /\ qReq = <<>> /\ qResp = <<>> /\ qCtx = <<>>
    /\ qGen = <<>>

InitCompress ==
    \* a request arrives at Compress, alone or wrapped by ETag
    /\ zCfg \in [allowedTypes : {AppAllowedTypes, PrefixAllowedTypes},
                 level : {5, 10}, etag : BOOLEAN, preset : {<<>>, TextHtml}]
    /\ zReq \in [method : {"GET", "POST"},
                 acceptEncoding : {<<"br">>, <<"deflate", ", ", "gzip">>},
                 path : {<<"/">>}]
    /\ zReq.method = "POST" => zCfg.etag
    /\ zPc = "new"
    /\ zMode = "none"
    /\ zEtagOn = FALSE
    /\ zEtagBody = <<>>
    /\ zCw = [shouldCompress |-> FALSE, buffer |-> <<>>]
    /\ zGz = NoGzipWriter
    /\ zW = IF zCfg.preset = <<>> THEN W0
            ELSE [W0 EXCEPT !.hdr = HSet(@, "Content-Type", zCfg.preset)]
    /\ zOps = <<>>
    \* the guard is not exercised
    /\ chain = "app" /\ alive = TRUE /\ rState = "idle" /\ gState = "Init"
    /\ hState = "notstarted" /\ ctxDone = FALSE /\ fired = FALSE
    /\ parentDone = FALSE
    /\ hAtFire = "none"
    /\ crw = newCapturingResponseWriter /\ dst = Dst0 /\ logs = <<>>
    /\ hOps = <<>> /\ opsAtSelect = 0 /\ hAtSelect = "none"
    \* the rate limiter is not exercised
    /\ limit = 1 /\ window = 1 /\ requests = [k \in {} |-> <<>>] /\ mu = "free"
    /\ clock = 0
    /\ rlpc = [p \in Procs |-> "idle"] /\ rlKey = [p \in Procs |-> "A"]
    /\ rlNow = [p \in Procs |-> 0] /\ rlPre = [p \in Procs |-> <<>>]
    /\ rlLog = <<>> /\ nextCalled = {}
    \* RealIP is not exercised
    /\ trustedProxies = <<>> /\ origPeer = <<>> /\ origAddr = <<>>
    /\ req = <<>> /\ ipDone = <<TRUE, TRUE>>
    \* the chain of app.New is not exercised
    /\ cReq = <<>> /\ cAlive = TRUE /\ cMain = <<>> /\ cMainPc = "done"
    /\ cInner = <<>> /\ cInnerPc = "none" /\ cTodo = <<>> /\ cCtxDone = FALSE
    /\ cGuard = "Init"
    /\ cCrw = newCapturingResponseWriter /\ cW = W0 /\ cStatus = 0
    /\ cLog = <<>> /\ cTrace = <<>>
    \* PrecompressedFileServer is not exercised
    /\ sFS = {} /\ sCache = [k \in {} |-> <<>>] /\ sClock = 0
    /\ pPc = <<>> /\ pReq = <<>> /\ pEntry = <<>> /\ pResp = <<>>
    /\ pExists = <<>> /\ pUse = <<>>
    \* the asset manager is not exercised
    /\ aFS = NoFS /\ aPc = "exited" /\ aManager = NoManager /\ aOut = NoResult
    \* BuildAssetVersions is not exercised
    /\ vTree = <<>> /\ vPc = "rebuilt" /\ vMap = <<>> /\ vPrevMap = <<>>
    /\ vEdit = NoEdit
    \* Renderer.HTML is not exercised
    /\ bPool = {} /\ bBuf = <<>> /\ bMade = 0 /\ bPc = <<>> /\ bHeld = <<>>
    /\ bW = <<>> /\ bExit = <<>> /\ bGot = <<>>
    \* the CSP nonce is not exercised
    /\ nPc = <<>> /\ nCsp = <<>> /\ nCtx = <<>> /\ nTpl = <<>>
    \* RequestID is not exercised
    /\ qPc = <<>> /\ qIn = <<>> /\ qReq = <<>> /\ qResp = <<>> /\ qCtx = <<>>
    /\ qGen = <<>>

SpecGuard ==
    /\ InitGuard
    /\ [][GuardNext]_vars

\* The Go scheduler runs every runnable goroutine and the runtime timer
\* fires; nothing obliges the inner handler to take a step.
FairSpecGuard ==
    /\ SpecGuard
    /\ WF_vars(RecovererServe)
    /\ WF_vars(TimeoutServe)
    /\ WF_vars(DeadlineFire)
    /\ WF_vars(GuardTimeout \/ GuardFlush)

SpecRate ==
    /\ InitRate
    /\ [][RateNext]_vars

SpecRealIP ==
    /\ InitRealIP
    /\ [][RealIPNext]_vars

SpecChain ==
    /\ InitChain
    /\ [][ChainNext]_vars

SpecCompress ==
    /\ InitCompress
    /\ [][CompressNext]_vars


InitStartup ==
    \* the guard is not exercised
    /\ chain = "app" /\ alive = TRUE /\ rState = "idle" /\ gState = "Init"
    /\ hState = "notstarted" /\ ctxDone = FALSE /\ fired = FALSE
    /\ parentDone = FALSE
    /\ hAtFire = "none"
    /\ crw = newCapturingResponseWriter /\ dst = Dst0 /\ logs = <<>>
    /\ hOps = <<>> /\ opsAtSelect = 0 /\ hAtSelect = "none"
    \* the rate limiter is not exercised
    /\ limit = 1 /\ window = 1 /\ requests = [k \in {} |-> <<>>] /\ mu = "free"
    /\ clock = 0
    /\ rlpc = [p \in Procs |-> "idle"] /\ rlKey = [p \in Procs |-> "A"]
    /\ rlNow = [p \in Procs |-> 0] /\ rlPre = [p \in Procs |-> <<>>]
    /\ rlLog = <<>> /\ nextCalled = {}
    \* RealIP is not exercised
    /\ trustedProxies = <<>> /\ origPeer = <<>> /\ origAddr = <<>>
    /\ req = <<>> /\ ipDone = <<TRUE, TRUE>>
    \* the chain of app.New is not exercised
    /\ cReq = <<>> /\ cAlive = TRUE /\ cMain = <<>> /\ cMainPc = "done"
    /\ cInner = <<>> /\ cInnerPc = "none" /\ cTodo = <<>> /\ cCtxDone = FALSE
    /\ cGuard = "Init"
    /\ cCrw = newCapturingResponseWriter /\ cW = W0 /\ cStatus = 0
    /\ cLog = <<>> /\ cTrace = <<>>
    \* Compress and ETag are not exercised
    /\ zCfg = <<>> /\ zReq = <<>> /\ zPc = "done" /\ zMode = "none"
    /\ zEtagOn = FALSE /\ zEtagBody = <<>>
    /\ zCw = [shouldCompress |-> FALSE, buffer |-> <<>>]
    /\ zGz = NoGzipWriter /\ zW = W0 /\ zOps = <<>>
    \* PrecompressedFileServer is not exercised
    /\ sFS = {} /\ sCache = [k \in {} |-> <<>>] /\ sClock = 0
    /\ pPc = <<>> /\ pReq = <<>> /\ pEntry = <<>> /\ pResp = <<>>
    /\ pExists = <<>> /\ pUse = <<>>
    \* main is about to call assets.New; the file systems are embedded
    /\ aFS \in [static : [possiblePaths -> ManifestFiles], templates : BOOLEAN,
                walk : BOOLEAN, listen : BOOLEAN]
    /\ aPc = "assets" /\ aManager = NoManager /\ aOut = NoResult
    \* BuildAssetVersions is not exercised
    /\ vTree = <<>> /\ vPc = "rebuilt" /\ vMap = <<>> /\ vPrevMap = <<>>
    /\ vEdit = NoEdit
    \* Renderer.HTML is not exercised
    /\ bPool = {} /\ bBuf = <<>> /\ bMade = 0 /\ bPc = <<>> /\ bHeld = <<>>
    /\ bW = <<>> /\ bExit = <<>> /\ bGot = <<>>
    \* the CSP nonce is not exercised
    /\ nPc = <<>> /\ nCsp = <<>> /\ nCtx = <<>> /\ nTpl = <<>>
    \* RequestID is not exercised
    /\ qPc = <<>> /\ qIn = <<>> /\ qReq = <<>> /\ qResp = <<>> /\ qCtx = <<>>
    /\ qGen = <<>>

InitAssetManager ==
    \* the guard is not exercised
    /\ chain = "app" /\ alive = TRUE /\ rState = "idle" /\ gState = "Init"
    /\ hState = "notstarted" /\ ctxDone = FALSE /\ fired = FALSE
    /\ parentDone = FALSE
    /\ hAtFire = "none"
    /\ crw = newCapturingResponseWriter /\ dst = Dst0 /\ logs = <<>>
    /\ hOps = <<>> /\ opsAtSelect = 0 /\ hAtSelect = "none"
    \* the rate limiter is not exercised
    /\ limit = 1 /\ window = 1 /\ requests = [k \in {} |-> <<>>] /\ mu = "free"
    /\ clock = 0
    /\ rlpc = [p \in Procs |-> "idle"] /\ rlKey = [p \in Procs |-> "A"]
    /\ rlNow = [p \in Procs |-> 0] /\ rlPre = [p \in Procs |-> <<>>]
    /\ rlLog = <<>> /\ nextCalled = {}
    \* RealIP is not exercised
    /\ trustedProxies = <<>> /\ origPeer = <<>> /\ origAddr = <<>>
    /\ req = <<>> /\ ipDone = <<TRUE, TRUE>>
    \* the chain of app.New is not exercised
    /\ cReq = <<>> /\ cAlive = TRUE /\ cMain = <<>> /\ cMainPc = "done"
    /\ cInner = <<>> /\ cInnerPc = "none" /\ cTodo = <<>> /\ cCtxDone = FALSE
    /\ cGuard = "Init"
    /\ cCrw = newCapturingResponseWriter /\ cW = W0 /\ cStatus = 0
    /\ cLog = <<>> /\ cTrace = <<>>
    \* Compress and ETag are not exercised
    /\ zCfg = <<>> /\ zReq = <<>> /\ zPc = "done" /\ zMode = "none"
    /\ zEtagOn = FALSE /\ zEtagBody = <<>>
    /\ zCw = [shouldCompress |-> FALSE, buffer |-> <<>>]
    /\ zGz = NoGzipWriter /\ zW = W0 /\ zOps = <<>>
    \* PrecompressedFileServer is not exercised
    /\ sFS = {} /\ sCache = [k \in {} |-> <<>>] /\ sClock = 0
    /\ pPc = <<>> /\ pReq = <<>> /\ pEntry = <<>> /\ pResp = <<>>
    /\ pExists = <<>> /\ pUse = <<>>
    \* an AssetManager over any manifest that has files, with or without a logger
    /\ aFS = NoFS /\ aPc = "constructed"
    /\ aManager \in [manifest : {m \in Manifests : DOMAIN m # {}}, logger : BOOLEAN]
    /\ aOut = NoResult
    \* BuildAssetVersions is not exercised
    /\ vTree = <<>> /\ vPc = "rebuilt" /\ vMap = <<>> /\ vPrevMap = <<>>
    /\ vEdit = NoEdit
    \* Renderer.HTML is not exercised
    /\ bPool = {} /\ bBuf = <<>> /\ bMade = 0 /\ bPc = <<>> /\ bHeld = <<>>
    /\ bW = <<>> /\ bExit = <<>> /\ bGot = <<>>
    \* the CSP nonce is not exercised
    /\ nPc = <<>> /\ nCsp = <<>> /\ nCtx = <<>> /\ nTpl = <<>>
    \* RequestID is not exercised
    /\ qPc = <<>> /\ qIn = <<>> /\ qReq = <<>> /\ qResp = <<>> /\ qCtx = <<>>
    /\ qGen = <<>>

SpecStartup ==
    /\ InitStartup
    /\ [][StartupNext]_vars

SpecAssetManager ==
    /\ InitAssetManager
    /\ [][AssetManagerNext]_vars

InitVersions ==
    \* the guard is not exercised
    /\ chain = "app" /\ alive = TRUE /\ rState = "idle" /\ gState = "Init"
    /\ hState = "notstarted" /\ ctxDone = FALSE /\ fired = FALSE
    /\ parentDone = FALSE
    /\ hAtFire = "none"
    /\ crw = newCapturingResponseWriter /\ dst = Dst0 /\ logs = <<>>
    /\ hOps = <<>> /\ opsAtSelect = 0 /\ hAtSelect = "none"
    \* the rate limiter is not exercised
    /\ limit = 1 /\ window = 1 /\ requests = [k \in {} |-> <<>>] /\ mu = "free"
    /\ clock = 0
    /\ rlpc = [p \in Procs |-> "idle"] /\ rlKey = [p \in Procs |-> "A"]
    /\ rlNow = [p \in Procs |-> 0] /\ rlPre = [p \in Procs |-> <<>>]
    /\ rlLog = <<>> /\ nextCalled = {}
    \* RealIP is not exercised
    /\ trustedProxies = <<>> /\ origPeer = <<>> /\ origAddr = <<>>
    /\ req = <<>> /\ ipDone = <<TRUE, TRUE>>
    \* the chain of app.New is not exercised
    /\ cReq = <<>> /\ cAlive = TRUE /\ cMain = <<>> /\ cMainPc = "done"
    /\ cInner = <<>> /\ cInnerPc = "none" /\ cTodo = <<>> /\ cCtxDone = FALSE
    /\ cGuard = "Init"
    /\ cCrw = newCapturingResponseWriter /\ cW = W0 /\ cStatus = 0
    /\ cLog = <<>> /\ cTrace = <<>>
    \* Compress and ETag are not exercised
    /\ zCfg = <<>> /\ zReq = <<>> /\ zPc = "done" /\ zMode = "none"
    /\ zEtagOn = FALSE /\ zEtagBody = <<>>
    /\ zCw = [shouldCompress |-> FALSE, buffer |-> <<>>]
    /\ zGz = NoGzipWriter /\ zW = W0 /\ zOps = <<>>
    \* PrecompressedFileServer is not exercised
    /\ sFS = {} /\ sCache = [k \in {} |-> <<>>] /\ sClock = 0
    /\ pPc = <<>> /\ pReq = <<>> /\ pEntry = <<>> /\ pResp = <<>>
    /\ pExists = <<>> /\ pUse = <<>>
    \* the asset manager is not exercised
    /\ aFS = NoFS /\ aPc = "exited" /\ aManager = NoManager /\ aOut = NoResult
    \* any tree over the three files; nothing is built yet
    /\ vTree \in [Range(WalkOrder) -> [bytes : Contents, modTime : {0}]]
    /\ vTree[WalkOrder[2]].bytes \in BytesOfLen(1)
    /\ vPc = "new" /\ vMap = <<>> /\ vPrevMap = <<>> /\ vEdit = NoEdit
    \* Renderer.HTML is not exercised
    /\ bPool = {} /\ bBuf = <<>> /\ bMade = 0 /\ bPc = <<>> /\ bHeld = <<>>
    /\ bW = <<>> /\ bExit = <<>> /\ bGot = <<>>
    \* the CSP nonce is not exercised
    /\ nPc = <<>> /\ nCsp = <<>> /\ nCtx = <<>> /\ nTpl = <<>>
    \* RequestID is not exercised
    /\ qPc = <<>> /\ qIn = <<>> /\ qReq = <<>> /\ qResp = <<>> /\ qCtx = <<>>
    /\ qGen = <<>>

SpecVersions ==
    /\ InitVersions
    /\ [][VersionsNext]_vars

InitRender ==
    \* the guard is not exercised
    /\ chain = "app" /\ alive = TRUE /\ rState = "idle" /\ gState = "Init"
    /\ hState = "notstarted" /\ ctxDone = FALSE /\ fired = FALSE
    /\ parentDone = FALSE
    /\ hAtFire = "none"
    /\ crw = newCapturingResponseWriter /\ dst = Dst0 /\ logs = <<>>
    /\ hOps = <<>> /\ opsAtSelect = 0 /\ hAtSelect = "none"
    \* the rate limiter is not exercised
    /\ limit = 1 /\ window = 1 /\ requests = [k \in {} |-> <<>>] /\ mu = "free"
    /\ clock = 0
    /\ rlpc = [p \in Procs |-> "idle"] /\ rlKey = [p \in Procs |-> "A"]
    /\ rlNow = [p \in Procs |-> 0] /\ rlPre = [p \in Procs |-> <<>>]
    /\ rlLog = <<>> /\ nextCalled = {}
    \* RealIP is not exercised
    /\ trustedProxies = <<>> /\ origPeer = <<>> /\ origAddr = <<>>
    /\ req = <<>> /\ ipDone = <<TRUE, TRUE>>
    \* the chain of app.New is not exercised
    /\ cReq = <<>> /\ cAlive = TRUE /\ cMain = <<>> /\ cMainPc = "done"
    /\ cInner = <<>> /\ cInnerPc = "none" /\ cTodo = <<>> /\ cCtxDone = FALSE
    /\ cGuard = "Init"
    /\ cCrw = newCapturingResponseWriter /\ cW = W0 /\ cStatus = 0
    /\ cLog = <<>> /\ cTrace = <<>>
    \* Compress and ETag are not exercised
    /\ zCfg = <<>> /\ zReq = <<>> /\ zPc = "done" /\ zMode = "none"
    /\ zEtagOn = FALSE /\ zEtagBody = <<>>
    /\ zCw = [shouldCompress |-> FALSE, buffer |-> <<>>]
    /\ zGz = NoGzipWriter /\ zW = W0 /\ zOps = <<>>
    \* PrecompressedFileServer is not exercised
    /\ sFS = {} /\ sCache = [k \in {} |-> <<>>] /\ sClock = 0
    /\ pPc = <<>> /\ pReq = <<>> /\ pEntry = <<>> /\ pResp = <<>>
    /\ pExists = <<>> /\ pUse = <<>>
    \* the asset manager is not exercised
    /\ aFS = NoFS /\ aPc = "exited" /\ aManager = NoManager /\ aOut = NoResult
    \* BuildAssetVersions is not exercised
    /\ vTree = <<>> /\ vPc = "rebuilt" /\ vMap = <<>> /\ vPrevMap = <<>>
    /\ vEdit = NoEdit
    \* the pool is empty and no request has called HTML yet
    /\ bPool = {} /\ bBuf = [b \in Renders |-> <<>>] /\ bMade = 0
    /\ bPc = [r \in Renders |-> "new"] /\ bHeld = [r \in Renders |-> 0]
    /\ bW = [r \in Renders |-> W0] /\ bExit = [r \in Renders |-> "none"]
    /\ bGot = [r \in Renders |-> 0]
    \* the CSP nonce is not exercised
    /\ nPc = <<>> /\ nCsp = <<>> /\ nCtx = <<>> /\ nTpl = <<>>
    \* RequestID is not exercised
    /\ qPc = <<>> /\ qIn = <<>> /\ qReq = <<>> /\ qResp = <<>> /\ qCtx = <<>>
    /\ qGen = <<>>

SpecRender ==
    /\ InitRender
    /\ [][RenderNext]_vars

SpecRateAddr ==
    /\ InitRate
    /\ [][RateAddrNext]_vars

InitNonce ==
    \* the guard is not exercised
    /\ chain = "app" /\ alive = TRUE /\ rState = "idle" /\ gState = "Init"
    /\ hState = "notstarted" /\ ctxDone = FALSE /\ fired = FALSE
    /\ parentDone = FALSE
    /\ hAtFire = "none"
    /\ crw = newCapturingResponseWriter /\ dst = Dst0 /\ logs = <<>>
    /\ hOps = <<>> /\ opsAtSelect = 0 /\ hAtSelect = "none"
    \* the rate limiter is not exercised
    /\ limit = 1 /\ window = 1 /\ requests = [k \in {} |-> <<>>] /\ mu = "free"
    /\ clock = 0
    /\ rlpc = [p \in Procs |-> "idle"] /\ rlKey = [p \in Procs |-> "A"]
    /\ rlNow = [p \in Procs |-> 0] /\ rlPre = [p \in Procs |-> <<>>]
    /\ rlLog = <<>> /\ nextCalled = {}
    \* RealIP is not exercised
    /\ trustedProxies = <<>> /\ origPeer = <<>> /\ origAddr = <<>>
    /\ req = <<>> /\ ipDone = <<TRUE, TRUE>>
    \* the chain of app.New is not exercised
    /\ cReq = <<>> /\ cAlive = TRUE /\ cMain = <<>> /\ cMainPc = "done"
    /\ cInner = <<>> /\ cInnerPc = "none" /\ cTodo = <<>> /\ cCtxDone = FALSE
    /\ cGuard = "Init"
    /\ cCrw = newCapturingResponseWriter /\ cW = W0 /\ cStatus = 0
    /\ cLog = <<>> /\ cTrace = <<>>
    \* Compress and ETag are not exercised
    /\ zCfg = <<>> /\ zReq = <<>> /\ zPc = "done" /\ zMode = "none"
    /\ zEtagOn = FALSE /\ zEtagBody = <<>>
    /\ zCw = [shouldCompress |-> FALSE, buffer |-> <<>>]
    /\ zGz = NoGzipWriter /\ zW = W0 /\ zOps = <<>>
    \* PrecompressedFileServer is not exercised
    /\ sFS = {} /\ sCache = [k \in {} |-> <<>>] /\ sClock = 0
    /\ pPc = <<>> /\ pReq = <<>> /\ pEntry = <<>> /\ pResp = <<>>
    /\ pExists = <<>> /\ pUse = <<>>
    \* the asset manager is not exercised
    /\ aFS = NoFS /\ aPc = "exited" /\ aManager = NoManager /\ aOut = NoResult
    \* BuildAssetVersions is not exercised
    /\ vTree = <<>> /\ vPc = "rebuilt" /\ vMap = <<>> /\ vPrevMap = <<>>
    /\ vEdit = NoEdit
    \* Renderer.HTML is not exercised
    /\ bPool = {} /\ bBuf = <<>> /\ bMade = 0 /\ bPc = <<>> /\ bHeld = <<>>
    /\ bW = <<>> /\ bExit = <<>> /\ bGot = <<>>
    \* the requests have not reached SecurityHeaders yet
    /\ nPc = [r \in Renders |-> "new"] /\ nCsp = [r \in Renders |-> ""]
    /\ nCtx = [r \in Renders |-> EmptyContext]
    /\ nTpl = [r \in Renders |-> NoTemplateData]
    \* RequestID is not exercised
    /\ qPc = <<>> /\ qIn = <<>> /\ qReq = <<>> /\ qResp = <<>> /\ qCtx = <<>>
    /\ qGen = <<>>

SpecNonce ==
    /\ InitNonce
    /\ [][NonceNext]_vars

InitRequestID ==
    \* the guard is not exercised
    /\ chain = "app" /\ alive = TRUE /\ rState = "idle" /\ gState = "Init"
    /\ hState = "notstarted" /\ ctxDone = FALSE /\ fired = FALSE
    /\ parentDone = FALSE
    /\ hAtFire = "none"
    /\ crw = newCapturingResponseWriter /\ dst = Dst0 /\ logs = <<>>
    /\ hOps = <<>> /\ opsAtSelect = 0 /\ hAtSelect = "none"
    \* the rate limiter is not exercised
    /\ limit = 1 /\ window = 1 /\ requests = [k \in {} |-> <<>>] /\ mu = "free"
    /\ clock = 0
    /\ rlpc = [p \in Procs |-> "idle"] /\ rlKey = [p \in Procs |-> "A"]
    /\ rlNow = [p \in Procs |-> 0] /\ rlPre = [p \in Procs |-> <<>>]
    /\ rlLog = <<>> /\ nextCalled = {}
    \* RealIP is not exercised
    /\ trustedProxies = <<>> /\ origPeer = <<>> /\ origAddr = <<>>
    /\ req = <<>> /\ ipDone = <<TRUE, TRUE>>
    \* the chain of app.New is not exercised
    /\ cReq = <<>> /\ cAlive = TRUE /\ cMain = <<>> /\ cMainPc = "done"
    /\ cInner = <<>> /\ cInnerPc = "none" /\ cTodo = <<>> /\ cCtxDone = FALSE
    /\ cGuard = "Init"
    /\ cCrw = newCapturingResponseWriter /\ cW = W0 /\ cStatus = 0
    /\ cLog = <<>> /\ cTrace = <<>>
    \* Compress and ETag are not exercised
    /\ zCfg = <<>> /\ zReq = <<>> /\ zPc = "done" /\ zMode = "none"
    /\ zEtagOn = FALSE /\ zEtagBody = <<>>
    /\ zCw = [shouldCompress |-> FALSE, buffer |-> <<>>]
    /\ zGz = NoGzipWriter /\ zW = W0 /\ zOps = <<>>
    \* PrecompressedFileServer is not exercised
    /\ sFS = {} /\ sCache = [k \in {} |-> <<>>] /\ sClock = 0
    /\ pPc = <<>> /\ pReq = <<>> /\ pEntry = <<>> /\ pResp = <<>>
    /\ pExists = <<>> /\ pUse = <<>>
    \* the asset manager is not exercised
    /\ aFS = NoFS /\ aPc = "exited" /\ aManager = NoManager /\ aOut = NoResult
    \* BuildAssetVersions is not exercised
    /\ vTree = <<>> /\ vPc = "rebuilt" /\ vMap = <<>> /\ vPrevMap = <<>>
    /\ vEdit = NoEdit
    \* Renderer.HTML is not exercised
    /\ bPool = {} /\ bBuf = <<>> /\ bMade = 0 /\ bPc = <<>> /\ bHeld = <<>>
    /\ bW = <<>> /\ bExit = <<>> /\ bGot = <<>>
    \* the CSP nonce is not exercised
    /\ nPc = <<>> /\ nCsp = <<>> /\ nCtx = <<>> /\ nTpl = <<>>
    \* the requests as they arrive, with any X-Request-ID values
    /\ qIn \in [Renders -> IncomingIDs] /\ qReq = qIn
    /\ qPc = [r \in Renders |-> "new"] /\ qResp = [r \in Renders |-> <<>>]
    /\ qCtx = [r \in Renders |-> EmptyContext] /\ qGen = [r \in Renders |-> FALSE]

SpecRequestID ==
    /\ InitRequestID
    /\ [][RequestIDNext]_vars

SpecGuardWait ==
    /\ InitGuard
    /\ [][GuardWaitNext]_vars

\* The Go scheduler runs every runnable goroutine and the runtime timer
\* fires; a handler that is not blocked goes on to its next statement, and
\* a receive from a closed Done channel completes.
FairSpecGuardWait ==
    /\ SpecGuardWait
    /\ WF_vars(RecovererServe)
    /\ WF_vars(TimeoutServe)
    /\ WF_vars(DeadlineFire)
    /\ WF_vars(GuardTimeout \/ GuardFlush)
    /\ WF_vars(HandlerDoneReceived)
    /\ WF_vars(HandlerReturn \/ HandlerPanic)

InitStatic ==
    \* a PrecompressedFileServer over some static tree, its cache empty, and
    \* the requests that will arrive
    /\ sFS \in SUBSET StaticFiles
    /\ sCache = [k \in {} |-> <<>>]
    /\ sClock = 0
    /\ pPc = [r \in StaticReqs |-> "new"]
    /\ pReq = [r \in StaticReqs |-> [method |-> "GET", ae |-> <<>>]]
    /\ pEntry = [r \in StaticReqs |-> NoEntry]
    /\ pResp = [r \in StaticReqs |-> NoResponse]
    /\ pExists = [r \in StaticReqs |-> FALSE]
    /\ pUse = [r \in StaticReqs |-> {}]
    \* the guard is not exercised
    /\ chain = "app" /\ alive = TRUE /\ rState = "idle" /\ gState = "Init"
    /\ hState = "notstarted" /\ ctxDone = FALSE /\ fired = FALSE
    /\ parentDone = FALSE
    /\ hAtFire = "none"
    /\ crw = newCapturingResponseWriter /\ dst = Dst0 /\ logs = <<>>
    /\ hOps = <<>> /\ opsAtSelect = 0 /\ hAtSelect = "none"
    \* the rate limiter is not exercised
    /\ limit = 1 /\ window = 1 /\ requests = [k \in {} |-> <<>>] /\ mu = "free"
    /\ clock = 0
    /\ rlpc = [p \in Procs |-> "idle"] /\ rlKey = [p \in Procs |-> "A"]
    /\ rlNow = [p \in Procs |-> 0] /\ rlPre = [p \in Procs |-> <<>>]
    /\ rlLog = <<>> /\ nextCalled = {}
    \* RealIP is not exercised
    /\ trustedProxies = <<>> /\ origPeer = <<>> /\ origAddr = <<>>
    /\ req = <<>> /\ ipDone = <<TRUE, TRUE>>
    \* the chain of app.New is not exercised
    /\ cReq = <<>> /\ cAlive = TRUE /\ cMain = <<>> /\ cMainPc = "done"
    /\ cInner = <<>> /\ cInnerPc = "none" /\ cTodo = <<>> /\ cCtxDone = FALSE
    /\ cGuard = "Init"
    /\ cCrw = newCapturingResponseWriter /\ cW = W0 /\ cStatus = 0
    /\ cLog = <<>> /\ cTrace = <<>>
    \* Compress and ETag are not exercised
    /\ zCfg = <<>> /\ zReq = <<>> /\ zPc = "done" /\ zMode = "none"
    /\ zEtagOn = FALSE /\ zEtagBody = <<>>
    /\ zCw = [shouldCompress |-> FALSE, buffer |-> <<>>]
    /\ zGz = NoGzipWriter /\ zW = W0 /\ zOps = <<>>
    \* the asset manager is not exercised
    /\ aFS = NoFS /\ aPc = "exited" /\ aManager = NoManager /\ aOut = NoResult
    \* BuildAssetVersions is not exercised
    /\ vTree = <<>> /\ vPc = "rebuilt" /\ vMap = <<>> /\ vPrevMap = <<>>
    /\ vEdit = NoEdit
    \* Renderer.HTML is not exercised
    /\ bPool = {} /\ bBuf = <<>> /\ bMade = 0 /\ bPc = <<>> /\ bHeld = <<>>
    /\ bW = <<>> /\ bExit = <<>> /\ bGot = <<>>
    \* the CSP nonce is not exercised
    /\ nPc = <<>> /\ nCsp = <<>> /\ nCtx = <<>> /\ nTpl = <<>>
    \* RequestID is not exercised
    /\ qPc = <<>> /\ qIn = <<>> /\ qReq = <<>> /\ qResp = <<>> /\ qCtx = <<>>
    /\ qGen = <<>>

SpecStatic ==
    /\ InitStatic
    /\ [][StaticNext]_vars

(***************************************************************************)
(* Properties of the deadline guard                                        *)
(***************************************************************************)
GuardDone == gState \in {"Completed", "TimedOut"}

\* what reached the client comes from the guard's 408 answer
From408(d) ==
    \/ d.status = 408
    \/ "Request Timeout" \in Range(d.body)
    \/ d.sent["X-Content-Type-Options"] # <<>>
    \/ "text/plain; charset=utf-8" \in Range(d.sent["Content-Type"])

\* what reached the client comes from the inner handler
FromHandler(d) ==
    \/ d.status \in HandlerCodes \cup {200}
    \/ Range(d.body) \cap {"a", "b"} # {}
    \/ \E k \in HandlerKeys : Range(d.sent[k]) \cap HandlerValues # {}

\* the complete 408 answer on the real writer
Timeout408 ==
    LET h == [Dst0.hdr EXCEPT !["Content-Type"] = <<"text/plain; charset=utf-8">>,
                              !["X-Content-Type-Options"] = <<"nosniff">>]
    IN  [hdr |-> h, status |-> 408, sent |-> h, body |-> <<"Request Timeout">>]

\* C1: under the guard the real response writer holds the 408 answer or the
\* handler's flushed response, never both and never parts of both; when the
\* guard has returned it holds one of the two.
C1_TimeoutOrFlushedNeverBoth ==
    chain = "app" =>
        /\ ~(From408(dst) /\ FromHandler(dst))
        /\ GuardDone => (From408(dst) \/ FromHandler(dst))
        /\ gState = "TimedOut" => From408(dst)
        /\ gState = "Completed" => FromHandler(dst)

\* C1 witness: a photo finish - the handler had returned with output and the
\* guard took the timeout branch.
C1_Witness ==
    /\ chain = "app" /\ gState = "TimedOut" /\ hState = "returned"
    /\ crw.buf # <<>> /\ crw.statusCode = 404

\* C2: while the guard waits for the inner handler nothing of the handler's
\* output is on the real writer; and when the deadline fired while the
\* handler was still running, the guard has timed out once it has left its
\* select, and the real writer holds exactly the 408 answer, whatever the
\* handler writes afterwards.
C2_NothingBeforeTimeoutOnly408After ==
    chain = "app" =>
        /\ gState \in {"Init", "Running"} => dst = Dst0
        /\ (GuardDone /\ hAtFire = "running") =>
              /\ gState = "TimedOut"
              /\ dst = Timeout408

\* C5: in the app.New chain a panic of a handler below Recoverer leaves the
\* process alive and yields one 500 response and one "panic recovered" entry.
C5_PanicRecoveredOnce ==
    (chain = "app" /\ hState = "panicked") =>
        /\ alive
        /\ rState = "returned" => (dst.status = 500 /\ Len(logs) = 1)

\* The status code of the first WriteHeader call on the handler's writer:
\* the handler's own call, or the WriteHeader(200) that a Write makes when
\* no header was written; 200 if there is neither.
FirstWriteHeaderCode(ops) ==
    IF \E i \in 1..Len(ops) : ops[i].op \in {"WriteHeader", "Write"}
    THEN LET f == CHOOSE i \in 1..Len(ops) :
                     /\ ops[i].op \in {"WriteHeader", "Write"}
                     /\ \A j \in 1..(i-1) : ops[j].op \notin {"WriteHeader", "Write"}
         IN  IF ops[f].op = "WriteHeader" THEN ops[f].code ELSE 200
    ELSE 200

\* the body bytes of the handler's Write calls, in order
RECURSIVE BodyWritten(_)
BodyWritten(ops) ==
    IF ops = <<>> THEN <<>>
    ELSE (IF Head(ops).op = "Write" THEN Head(ops).b ELSE <<>>) \o BodyWritten(Tail(ops))

\* the values the handler's Set and Add calls leave under key k
RECURSIVE HeaderValues(_, _)
HeaderValues(ops, k) ==
    IF ops = <<>> THEN <<>>
    ELSE LET last == ops[Len(ops)]
             init == SubSeq(ops, 1, Len(ops) - 1)
         IN  IF last.op = "Set" /\ last.k = k THEN <<last.v>>
             ELSE IF last.op = "Add" /\ last.k = k
                  THEN Append(HeaderValues(init, k), last.v)
             ELSE HeaderValues(init, k)

\* C9 as stated: when the handler has completed before the deadline (no
\* deadline has fired, or it fired after the handler had returned) the guard
\* completes, and a completed request carries the status code of the first
\* WriteHeader call (200 if there is none), every header value the handler
\* set (after those the outer layers had set) and the handler's body bytes
\* in order.
C9_FlushedVerbatim ==
    chain = "app" =>
        /\ (GuardDone /\ hState = "returned" /\ (~fired \/ hAtFire = "returned"))
              => gState = "Completed"
        /\ gState = "Completed" =>
              /\ dst.status = FirstWriteHeaderCode(hOps)
              /\ dst.body = BodyWritten(hOps)
              /\ \A k \in HeaderKeys :
                    dst.sent[k] = Dst0.hdr[k] \o HeaderValues(hOps, k)

\* C9 amended: a guard that left its select when the handler had returned
\* and its context was not done (no deadline had fired and the request's own
\* context had not been cancelled; neither can happen once the guard has
\* left the select) has completed, and a completed request carries the
\* status code of the first WriteHeader call (200 if there is none), every
\* header value the handler set (after those the outer layers had set) and
\* the handler's body bytes in order.
C9_FlushedVerbatimUnlessCancelled ==
    chain = "app" =>
        /\ (GuardDone /\ hAtSelect = "returned" /\ ~fired /\ ~parentDone)
              => gState = "Completed"
        /\ gState = "Completed" =>
              /\ hAtSelect = "returned"
              /\ dst.status = FirstWriteHeaderCode(hOps)
              /\ dst.body = BodyWritten(hOps)
              /\ \A k \in HeaderKeys :
                    dst.sent[k] = Dst0.hdr[k] \o HeaderValues(hOps, k)

\* C9 witness: completed before the deadline with a header, a status and a
\* body from the handler.
C9_Witness ==
    /\ chain = "app" /\ gState = "Completed" /\ ~fired /\ ~parentDone
    /\ Len(hOps) = 3
    /\ hOps[1].op = "Add" /\ hOps[2].op = "WriteHeader" /\ hOps[2].code = 404
    /\ hOps[3].op = "Write" /\ hOps[3].b # <<>>
    /\ dst.status = 404 /\ dst.body = hOps[3].b /\ dst.sent[hOps[1].k] = <<hOps[1].v>>

\* C10: a request under the guard goes from Running to Completed or TimedOut
\* and stays there, and a running guard always comes to return.
C10_RunningEndsOnce ==
    /\ [][GuardDone => gState' = gState]_vars
    /\ (chain = "app" /\ gState = "Running") ~> GuardDone

(***************************************************************************)
(* Properties of the rate limiter                                          *)
(***************************************************************************)
SameKey(i, j) == rlLog[i].key = rlLog[j].key
Allowed(i) == rlLog[i].code = 200
\* request j, decided no later than request i, lies in the window ending at i
InWindow(j, i) == rlLog[i].now - rlLog[j].now <= window

\* C3: a request is allowed when its client made at most `limit` requests in
\* the window ending with it, and rejected with 429 when `limit` requests of
\* its client were already allowed in that window (always, when limit = 0).
C3_LimitPerWindow ==
    \A i \in 1..Len(rlLog) :
        LET attempts == {j \in 1..i : SameKey(j, i) /\ InWindow(j, i)}
            allowed  == {j \in 1..(i-1) : SameKey(j, i) /\ Allowed(j) /\ InWindow(j, i)}
        IN  /\ Cardinality(attempts) <= limit => rlLog[i].code = 200
            /\ Cardinality(allowed) >= limit => rlLog[i].code = 429

\* C3 witness: limit = 2, two requests of a client allowed and its third, in
\* the same window, rejected.
C3_Witness ==
    /\ limit = 2 /\ Len(rlLog) >= 3
    /\ \A i \in 1..3 : rlLog[i].key = "A"
    /\ Allowed(1) /\ Allowed(2) /\ rlLog[3].code = 429
    /\ InWindow(1, 3)

\* C4: in every interleaving, at most `limit` allowed requests of one client
\* have timestamps within one window.
C4_NeverOverAdmitted ==
    \A i \in 1..Len(rlLog) :
        Cardinality({j \in 1..Len(rlLog) :
                        /\ SameKey(i, j) /\ Allowed(j)
                        /\ rlLog[i].now <= rlLog[j].now
                        /\ rlLog[j].now - rlLog[i].now <= window}) <= limit

\* C4 witness: two requests of one client arrive at the same instant; one was
\* admitted, the goroutine of the other holds the lock and is over the limit.
C4_Witness ==
    /\ limit = 1 /\ mu = "g1"
    /\ rlpc["g1"] = "pruned" /\ rlpc["g2"] = "idle"
    /\ Len(rlLog) = 1 /\ Allowed(1)
    /\ rlLog[1].key = rlKey["g1"] /\ rlLog[1].now = rlNow["g1"]

\* the requests of request i's client from i to j
Since(i, j) == {m \in i..j : SameKey(m, i)}

\* C7 as stated: once more than `window` has passed since the client's oldest
\* recorded request, its next `limit` requests are all allowed.
C7_RestoredAfterOldest ==
    \A i \in 1..Len(rlLog) : \A j \in i..Len(rlLog) :
        ( /\ SameKey(i, j)
          /\ rlLog[i].pre # <<>>
          /\ rlLog[i].now - rlLog[i].pre[1] > window
          /\ Cardinality(Since(i, j)) <= limit ) => Allowed(j)

\* C7 amended: once more than `window` has passed since the client's newest
\* recorded request, its next `limit` requests are all allowed.
C7_RestoredAfterNewest ==
    \A i \in 1..Len(rlLog) : \A j \in i..Len(rlLog) :
        ( /\ SameKey(i, j)
          /\ rlLog[i].pre # <<>>
          /\ rlLog[i].now - rlLog[i].pre[Len(rlLog[i].pre)] > window
          /\ Cardinality(Since(i, j)) <= limit ) => Allowed(j)

\* C7 witness: limit = 2; a client used its quota, waited longer than the
\* window and had its next two requests allowed.
C7_Witness ==
    /\ limit = 2 /\ Len(rlLog) = 4
    /\ \A i \in 1..4 : rlLog[i].key = "A" /\ Allowed(i)
    /\ Len(rlLog[3].pre) = 2
    /\ rlLog[3].now - rlLog[2].now > window

\* C8: a rejected request leaves in the client's history exactly the earlier
\* timestamps that are still in the window, and does not reach next.
C8_RejectedNotRecorded ==
    \A i \in 1..Len(rlLog) :
        rlLog[i].code = 429 =>
            /\ rlLog[i].post =
                  SelectSeq(rlLog[i].pre, LAMBDA t : rlLog[i].now - t <= window)
            /\ i \notin nextCalled

\* C8 witness: a request was rejected while its client's history held
\* unexpired timestamps, after an older one had expired.
C8_Witness ==
    \E i \in 1..Len(rlLog) :
        /\ rlLog[i].code = 429 /\ rlLog[i].post # <<>>
        /\ \E j \in 1..(i-1) : SameKey(i, j) /\ Allowed(j) /\ ~InWindow(j, i)

(***************************************************************************)
(* Properties of RealIP                                                    *)
(***************************************************************************)
\* C6: when the direct peer is not a configured trusted proxy, RealIP leaves
\* RemoteAddr as received, whatever the proxy headers hold: the two requests
\* of the same peer resolve to the same address.
C6_UntrustedPeerUnchanged ==
    origPeer \notin Range(trustedProxies) =>
        /\ \A i \in {1, 2} : ipDone[i] => req[i].RemoteAddr = origAddr
        /\ (ipDone[1] /\ ipDone[2]) => req[1].RemoteAddr = req[2].RemoteAddr

\* C6 witness: an untrusted peer next to a configured proxy; both requests
\* went through RealIP, with different valid addresses in their headers.
C6_Witness ==
    /\ ipDone = <<TRUE, TRUE>>
    /\ trustedProxies = << <<"127.0.0.1">> >>
    /\ origPeer = <<"203.0.113.1">>
    /\ req[1].xForwardedFor = <<"198.51.100.7">>
    /\ req[2].xForwardedFor = <<" ", "203.0.113.1", ",", " ", "127.0.0.1">>
    /\ req[2].xRealIP = <<"198.51.100.7">>

(***************************************************************************)
(* Properties of the chain built by app.New                                *)
(***************************************************************************)
EnteredLayers  == SelectSeq(cTrace, LAMBDA e : e.ev = "enter")
ReturnedLayers == {e.layer : e \in {x \in Range(cTrace) : x.ev = "exit"}}

\* the layers are entered in the composed order
EnteredInOrder ==
    /\ Len(EnteredLayers) <= Len(Layers)
    /\ \A i \in 1..Len(EnteredLayers) : EnteredLayers[i].layer = Layers[i]

\* layer i has returned only if the inner layer j has
ReturnedInside(i, j) ==
    Layers[i] \in ReturnedLayers => Layers[j] \in ReturnedLayers

\* C11 as stated: the layers are entered in the order RequestID, RealIP,
\* Recoverer, SlogLogger, Timeout, SecurityHeaders, mux, and a layer has
\* returned only when every layer inside it has returned.
C11_EnteredInOrderReturnedInReverse ==
    /\ EnteredInOrder
    /\ \A i, j \in 1..Len(Layers) : i < j => ReturnedInside(i, j)

\* C11 amended: the layers are entered in the composed order; the layers of
\* one goroutine return in reverse order; unless the deadline guard timed
\* out, every layer returns only after every layer inside it has returned.
C11_ReturnedInReverseUnlessTimedOut ==
    /\ EnteredInOrder
    /\ \A i, j \in 1..Len(Layers) :
          (i < j /\ (j <= 5 \/ i >= 6)) => ReturnedInside(i, j)
    /\ cGuard # "TimedOut" =>
          \A i, j \in 1..Len(Layers) : i < j => ReturnedInside(i, j)

\* C11 witness: a request answered by the flush, all seven layers entered
\* and returned.
C11_Witness ==
    /\ cMainPc = "done" /\ cGuard = "Completed"
    /\ Len(cTrace) = 14
    /\ cTrace[7] = Entered("mux") /\ cTrace[8] = Returned("mux")
    /\ cTrace[14] = Returned("RequestID")

\* the response header block carries the headers SecurityHeaders sets
SecurityHeadersSent(d) ==
    /\ d.sent["X-Frame-Options"] = <<"DENY">>
    /\ d.sent["X-Content-Type-Options"] = <<"nosniff">>
    /\ d.sent["Referrer-Policy"] = <<"strict-origin-when-cross-origin">>
    /\ d.sent["Permissions-Policy"] = <<"geolocation=(), microphone=(), camera=()">>
    /\ \E n \in Nonces : d.sent["Content-Security-Policy"] = <<ContentSecurityPolicy(n)>>

\* C12: every response the chain has sent to the client carries the
\* security headers.
C12_EveryResponseHasSecurityHeaders ==
    cW.status # 0 => SecurityHeadersSent(cW)

(***************************************************************************)
(* Properties of Compress and ETag                                         *)
(***************************************************************************)
\* the response as the server completes it: a handler that wrote nothing is
\* answered 200 with the headers set so far
Finished(d) == IF d.status = 0 THEN DstWriteHeader(d, 200) ELSE d

\* C13: when ETag wraps Compress as in app.New (no Content-Type set
\* beforehand) and the response is sent gzip-encoded, the ETag sent is the
\* hash of the bytes the handler wrote (the uncompressed content).
C13_ETagOfUncompressedContent ==
    (/\ zPc = "done" /\ zCfg.etag /\ zReq.method = "GET" /\ zCfg.preset = <<>>
     /\ Finished(zW).sent["Content-Encoding"] = <<"gzip">>
     /\ BodyWritten(zOps) # <<>>)
    => Finished(zW).sent["ETag"] = <<Hash(BodyWritten(zOps))>>

\* C14: with a usable compression level and a handler that wrote a body,
\* the response is sent gzip-encoded exactly when Accept-Encoding includes gzip and the response's
\* Content-Type matches the allow-list exactly or by prefix; otherwise the
\* handler's body is sent unchanged with no Content-Encoding or Vary.
C14_GzipIffAcceptedAndAllowed ==
    (zPc = "done" /\ LevelOK(zCfg.level) /\ BodyWritten(zOps) # <<>>) =>
        LET d    == Finished(zW)
            want == /\ ContainsGzip(zReq.acceptEncoding)
                    /\ shouldCompress(HGet(d.sent, "Content-Type"), zCfg.allowedTypes)
            enc  == /\ d.sent["Content-Encoding"] = <<"gzip">>
                    /\ Gunzip(d.body).ok
        IN  /\ want <=> enc
            /\ ~want => /\ d.body = BodyWritten(zOps)
                        /\ d.sent["Content-Encoding"] = <<>>
                        /\ d.sent["Vary"] = <<>>

\* C15: when the response header says Content-Encoding: gzip, gunzipping
\* the body yields the bytes the handler wrote, in order.
C15_GunzipYieldsWritten ==
    (zPc = "done" /\ zW.hdr["Content-Encoding"] = <<"gzip">>) =>
        /\ Gunzip(zW.body).ok
        /\ Gunzip(zW.body).data = BodyWritten(zOps)

(***************************************************************************)
(* Properties of PrecompressedFileServer                                   *)
(***************************************************************************)
\* C16: a GET or HEAD request is answered with the .br sibling and
\* Content-Encoding: br when br is accepted and that sibling exists; else
\* with the .gz sibling and Content-Encoding: gzip when gzip is accepted and
\* that sibling exists; else with the original and no Content-Encoding; an
\* error status only comes from a missing original.
C16_BestAvailableVariant ==
    \A r \in StaticReqs :
        (pPc[r] = "done" /\ pReq[r].method \in {"GET", "HEAD"}) =>
            LET br == "br" \in Range(pReq[r].ae) /\ BrSibling(AssetPath) \in sFS
                gz == "gzip" \in Range(pReq[r].ae) /\ GzSibling(AssetPath) \in sFS
            IN  /\ br => /\ pResp[r].served = BrSibling(AssetPath)
                         /\ pResp[r].contentEncoding = "br"
                /\ (~br /\ gz) => /\ pResp[r].served = GzSibling(AssetPath)
                                  /\ pResp[r].contentEncoding = "gzip"
                /\ (~br /\ ~gz) => /\ pResp[r].contentEncoding = ""
                                   /\ AssetPath \in sFS => pResp[r].served = AssetPath
                /\ pResp[r].status # 200 => (~br /\ ~gz /\ AssetPath \notin sFS)

\* C16 witness: br and gzip accepted, the .br sibling missing and cached as
\* missing at an earlier time, the .gz sibling served.
C16_Witness ==
    /\ pPc[1] = "done" /\ pReq[1].method = "GET"
    /\ "br" \in Range(pReq[1].ae) /\ "gzip" \in Range(pReq[1].ae)
    /\ BrSibling(AssetPath) \notin sFS /\ GzSibling(AssetPath) \in sFS
    /\ BrSibling(AssetPath) \in DOMAIN sCache
    /\ ~sCache[BrSibling(AssetPath)].exists
    /\ sCache[BrSibling(AssetPath)].time < sClock
    /\ pResp[1].status = 200 /\ pResp[1].served = GzSibling(AssetPath)
    /\ pResp[1].contentEncoding = "gzip"

(***************************************************************************)
(* Properties of the startup sequence                                      *)
(***************************************************************************)
\* the manifest file is the first candidate that can be read
IsManifestFile(i) ==
    /\ aFS.static[i].readable
    /\ \A j \in possiblePaths : j < i => ~aFS.static[j].readable

ManifestMissing == \A i \in possiblePaths : ~aFS.static[i].readable
ManifestUnparseable == \E i \in possiblePaths : IsManifestFile(i) /\ ~aFS.static[i].parses
ManifestHasNoFiles ==
    \E i \in possiblePaths :
        IsManifestFile(i) /\ aFS.static[i].parses /\ DOMAIN aFS.static[i].files = {}

\* the manager holds every record of the manifest file
ManifestComplete ==
    \E i \in possiblePaths :
        /\ IsManifestFile(i)
        /\ aFS.static[i].parses
        /\ aManager.manifest = aFS.static[i].files
        /\ DOMAIN aManager.manifest # {}

\* no step taken once the server is set up changes the manager
ManifestFrozen == (aPc \in {"serve", "listening"}) => (aManager' = aManager)

\* C17: with a missing, unparseable or empty manifest the process exits at
\* assets.New and never listens or serves; whenever the server is about to
\* listen, listens or has served a lookup, the manager holds the complete
\* manifest, and no step taken from then on changes it.
C17_FailFastAndFrozenManifest ==
    /\ []((ManifestMissing \/ ManifestUnparseable \/ ManifestHasNoFiles)
            => /\ aPc \in {"assets", "exited"}
               /\ aManager = NoManager
               /\ aOut = NoResult)
    /\ []((aPc \in {"serve", "listening"} \/ aOut # NoResult) => ManifestComplete)
    /\ [][ManifestFrozen]_vars

\* C17 witness: the server listens and a template's lookup found its record
C17_Witness ==
    /\ aPc = "listening"
    /\ aOut.op = "AssetURL"
    /\ aOut.str = AssetInfo(<<"a.css">>).Path
    /\ ManifestComplete

(***************************************************************************)
(* Properties of the asset manager's lookups                               *)
(***************************************************************************)
LeadingSlashForm(path) ==
    IF Len(path) >= 1 /\ path[1] = "/" THEN path ELSE <<"/">> \o path
NoLeadingSlashForm(path) ==
    IF Len(path) >= 1 /\ path[1] = "/" THEN SubSeq(path, 2, Len(path)) ELSE path

\* the manifest keys that are one of the two forms of the path
KeysOf(path) ==
    {LeadingSlashForm(path), NoLeadingSlashForm(path)} \cap DOMAIN aManager.manifest

\* C19: a lookup finds a record whenever the leading-slash form or the
\* no-leading-slash form of the path is a manifest key (case exact); when
\* neither is, AssetURL returns the path unchanged, AssetSRI the empty string
\* and HasAsset false.
C19_LookupTriesBothForms ==
    (aPc = "constructed" /\ aOut.op # "none") =>
        LET keys == KeysOf(aOut.path) IN
        /\ keys # {} =>
            /\ ~aOut.panicked
            /\ aOut.op = "AssetURL" =>
                 aOut.str \in {aManager.manifest[k].Path : k \in keys}
            /\ aOut.op = "AssetSRI" =>
                 aOut.str \in {aManager.manifest[k].SRI : k \in keys}
            /\ aOut.op = "HasAsset" => aOut.ok
            /\ aOut.op = "GetAssetInfo" =>
                 aOut.ok /\ aOut.info \in {aManager.manifest[k] : k \in keys}
        /\ keys = {} =>
            /\ ~aOut.panicked
            /\ aOut.op = "AssetURL" => aOut.str = aOut.path
            /\ aOut.op = "AssetSRI" => aOut.str = <<>>
            /\ aOut.op = "HasAsset" => ~aOut.ok
            /\ aOut.op = "GetAssetInfo" => ~aOut.ok

C20_RenderedThenWrittenBufferReturned ==
    /\ \A r \in Renders :
        /\ bPc[r] = "exec" => bW[r] = W0
        /\ bExit[r] = "ok" =>
            /\ bW[r].status = 200
            /\ bW[r].body = TemplateOutput
        /\ bExit[r] = "error" =>
            /\ bW[r].status = 500
            /\ bW[r].body = <<"template error">>
        /\ bExit[r] = "panic" => bW[r] = W0
        /\ bExit[r] \in {"ok", "error", "panic"} =>
            /\ bHeld[r] = 0
            /\ \/ bGot[r] \in bPool
               \/ \E q \in Renders : q # r /\ bHeld[q] = bGot[r]
    /\ \A b \in bPool : bBuf[b] = <<>>

\* C20 witness: a render failed after writing part of the template into a
\* buffer, and a later request rendered successfully with the same buffer
C20_Witness ==
    \E r, q \in Renders :
        /\ r # q
        /\ bExit[r] = "error" /\ bExit[q] = "ok"
        /\ bGot[r] = bGot[q]
        /\ bW[r].body = <<"template error">>
        /\ bBuf[bGot[r]] = <<>> /\ bGot[r] \in bPool

(***************************************************************************)
(* Properties of the rate limiter's client key                             *)
(***************************************************************************)
\* the IP address of a RemoteAddr
IPOf(addr) ==
    CASE addr = "192.168.1.1:12345" -> "192.168.1.1"
      [] addr = "192.168.1.1:54321" -> "192.168.1.1"
      [] addr = "192.168.1.2:12345" -> "192.168.1.2"

\* the requests admitted before the i-th one, from its IP address and still
\* inside its window
AdmittedFromSameIP(i) ==
    {j \in 1..(i - 1) :
        /\ rlLog[j].code = 200
        /\ IPOf(rlLog[j].key) = IPOf(rlLog[i].key)
        /\ rlLog[i].now - rlLog[j].now <= window}

\* C21: one history per client IP address: a request is rejected exactly
\* when the requests admitted from its own IP address inside the window have
\* used up the quota, whatever other IP addresses did.
C21_OneHistoryPerIP ==
    \A i \in 1..Len(rlLog) :
        (rlLog[i].code = 429) <=> (Cardinality(AdmittedFromSameIP(i)) >= limit)

(***************************************************************************)
(* Properties of the CSP nonce                                             *)
(***************************************************************************)
\* the nonce in the script-src directive of a CSP header value
NonceInScriptSrc(csp) ==
    LET before == "default-src 'self'; script-src 'self' 'nonce-"
        after == "'; style-src 'self'; img-src 'self' data:; font-src 'self'; object-src 'none'; base-uri 'self'; frame-ancestors 'none'"
    IN  IF \E n \in Nonces : csp = before \o n \o after
        THEN CHOOSE n \in Nonces : csp = before \o n \o after
        ELSE ""

\* a context value that is set stays as it is
NonceWriteOnce ==
    \A r \in Renders : nCtx[r][CspNonceKey] # "" => nCtx'[r] = nCtx[r] /\ nCsp'[r] = nCsp[r]

\* C22: once SecurityHeaders has run for a request, the nonce of its CSP
\* header is the nonce in its context, a template that is given a nonce is
\* given that one, and the nonce never changes afterwards.
C22_OneNoncePerRequest ==
    /\ [](\A r \in Renders :
            nPc[r] # "new" =>
                /\ NonceInScriptSrc(nCsp[r]) # ""
                /\ NonceInScriptSrc(nCsp[r]) = CSPNonceFromContext(nCtx[r]).nonce
                /\ nTpl[r].exposed => nTpl[r].nonce = NonceInScriptSrc(nCsp[r]))
    /\ [][NonceWriteOnce]_vars

(***************************************************************************)
(* Properties of RequestID                                                 *)
(***************************************************************************)
\* C23: after RequestID has run, the response's X-Request-ID, the request's
\* X-Request-ID and the id in the context are the same non-empty string; a
\* request that arrived with a non-empty X-Request-ID keeps its header as it
\* was, and an id is generated only for a request that arrived with none.
C23_RequestIDEverywhereEqual ==
    \A r \in Renders :
        qPc[r] = "done" =>
            /\ HeaderGet(qReq[r]) # ""
            /\ HeaderGet(qResp[r]) = HeaderGet(qReq[r])
            /\ RequestIDFromContext(qCtx[r]).ok
            /\ RequestIDFromContext(qCtx[r]).id = HeaderGet(qReq[r])
            /\ HeaderGet(qIn[r]) # "" => qReq[r] = qIn[r] /\ ~qGen[r]
            /\ qGen[r] => HeaderGet(qIn[r]) = ""

\* C23 witness: one request kept the id it arrived with while another one,
\* that arrived without, was given a generated id
C23_Witness ==
    \E r, s \in Renders :
        /\ qPc[r] = "done" /\ qPc[s] = "done"
        /\ qIn[r] = <<"up-1">> /\ HeaderGet(qResp[r]) = "up-1"
        /\ qIn[s] = <<>> /\ qGen[s] /\ HeaderGet(qResp[s]) \in GeneratedIDs

(***************************************************************************)
(* Properties of ETag on its own: Compress, when the request does not      *)
(* accept gzip, hands the handler the writer ETag gave it.                 *)
(***************************************************************************)
\* C24: for a GET request whose handler wrote a body, the ETag sent is the
\* hash of the complete body, in whatever order the handler called
\* WriteHeader and Write; the hash of the path is sent only when there is no
\* body; a request that is not GET gets no ETag.
C24_ETagOfCompleteBody ==
    (zPc = "done" /\ zMode = "pass" /\ ~ContainsGzip(zReq.acceptEncoding)) =>
        LET d == Finished(zW) IN
        /\ (zReq.method = "GET" /\ zEtagOn /\ BodyWritten(zOps) # <<>>) =>
              d.sent["ETag"] = <<Hash(BodyWritten(zOps))>>
        /\ (zReq.method = "GET" /\ zEtagOn /\ d.sent["ETag"] = <<Hash(zReq.path)>>) =>
              BodyWritten(zOps) = <<>>
        /\ zReq.method # "GET" => d.sent["ETag"] = <<>>

(***************************************************************************)
(* Properties of Compress with an unusable compression level               *)
(***************************************************************************)
\* C25: when gzip.NewWriterLevel refuses the level, the client receives the
\* handler's body as written, with the handler's status code and without
\* Content-Encoding: gzip.
C25_FallsBackToUncompressed ==
    (zPc = "done" /\ (zCfg.level < -2 \/ zCfg.level > 9)) =>
        LET d == Finished(zW) IN
        /\ d.body = BodyWritten(zOps)
        /\ d.status = FirstWriteHeaderCode(zOps)
        /\ d.sent["Content-Encoding"] = <<>>

\* C25 witness: gzip is accepted and the type is on the allow-list, the level
\* is refused, and the handler's 404 and body went out as written
C25_Witness ==
    /\ zPc = "done" /\ zCfg.level > 9
    /\ ContainsGzip(zReq.acceptEncoding)
    /\ shouldCompress(HGet(zW.sent, "Content-Type"), zCfg.allowedTypes)
    /\ zW.status = 404 /\ zW.body # <<>> /\ zW.body = BodyWritten(zOps)
    /\ zW.sent["Content-Encoding"] = <<>>

(***************************************************************************)
(* Properties of PrecompressedFileServer's Vary header                     *)
(***************************************************************************)
\* C26: every response to a GET or HEAD request, whichever variant or error
\* it carries, has Accept-Encoding in its Vary header.
C26_AlwaysVaryAcceptEncoding ==
    \A r \in StaticReqs :
        (pPc[r] = "done" /\ pReq[r].method \in {"GET", "HEAD"}) =>
            "Accept-Encoding" \in Range(pResp[r].vary)

\* C26 witness: a not-found answer to a GET request carries the Vary header
C26_Witness ==
    /\ pPc[1] = "done" /\ pReq[1].method = "GET"
    /\ pResp[1].status = 404 /\ sFS = {}
    /\ pResp[1].vary = <<"Accept-Encoding">>

(***************************************************************************)
(* Properties of the deadline guard's select                               *)
(***************************************************************************)
\* C27: a guard that leaves its select when the deadline has fired and the
\* inner handler has returned (both signals ready) has taken the timeout
\* branch and answered 408.
C27_TimeoutWinsTie ==
    (chain = "app" /\ GuardDone /\ fired /\ hAtSelect = "returned") =>
        /\ gState = "TimedOut"
        /\ dst.status = 408

(***************************************************************************)
(* Properties of cooperative cancellation                                  *)
(***************************************************************************)
\* the guard leaving its select changes nothing of the inner handler
GuardLeavesHandlerAlone ==
    (gState = "Running" /\ gState' # "Running") =>
        (hState' = hState /\ hOps' = hOps /\ alive' = alive)

\* C28: once the deadline has fired the context handed to the inner handler
\* is done and stays done, so a handler blocked on its Done signal gets on
\* and ends (it returns, unless its own code panics) instead of waiting for
\* ever; the guard answering never stops the handler.
C28_CancellationReachesHandler ==
    /\ [](fired => ctxDone)
    /\ (fired /\ hState = "waiting") ~> (hState \in {"returned", "panicked"})
    /\ (gState = "TimedOut" /\ hState = "waiting") ~>
           (hState \in {"returned", "panicked"})
    /\ [][GuardLeavesHandlerAlone]_vars

\* the handler blocked on Done was still blocked when the 408 went out, and
\* has returned since, after further calls on its writer
C28_Witness ==
    /\ chain = "app" /\ fired /\ gState = "TimedOut" /\ dst.status = 408
    /\ hAtSelect = "waiting" /\ hState = "returned"
    /\ hOps[1] = AwaitDone /\ Len(hOps) > opsAtSelect

(***************************************************************************)
(* Properties of the flush                                                 *)
(***************************************************************************)
\* a step under the guard: the flush finds the handler returned; the real
\* writer changes only in a step of the guard leaving its select, in which
\* the handler makes no call; a call of the handler changes only the capture
FlushStep ==
    /\ (gState = "Running" /\ gState' = "Completed") =>
           (hState = "returned" /\ hState' = "returned" /\ hOps' = hOps)
    /\ (chain = "app" /\ dst' # dst) =>
           (gState = "Running" /\ gState' # "Running" /\ hOps' = hOps)
    /\ (chain = "app" /\ hOps' # hOps) => (dst' = dst /\ gState' = gState)

\* C29: flush reads the captured status, headers and body only once the
\* inner handler has returned, so the handler makes no call on the capture
\* during or after the flush, and no step has both the guard and the inner
\* handler writing the real writer.
C29_FlushOnlyAfterReturn ==
    /\ [](gState = "Completed" =>
             (hAtSelect = "returned" /\ Len(hOps) = opsAtSelect))
    /\ [][FlushStep]_vars

\* the handler wrote a status and a body into the capture and returned, and
\* the guard flushed them
C29_Witness ==
    /\ chain = "app" /\ gState = "Completed" /\ hState = "returned"
    /\ Len(hOps) >= 2 /\ crw.wroteHeader /\ crw.buf # <<>>
    /\ dst.status = crw.statusCode /\ dst.body = crw.buf

(***************************************************************************)
(* Properties of PrecompressedFileServer's existence cache                 *)
(***************************************************************************)
\* C30: over a tree that does not change, every request served by the
\* handler with the cache, however it interleaves with others, gets the
\* response the handler without the cache gives; and every cached answer a
\* request relied on was younger than the time-to-live and had been read
\* under the candidate path it was used for.
C30_CacheRefinesUncached ==
    \A r \in StaticReqs :
        /\ pPc[r] = "done" =>
               pResp[r] = UncachedServe(sFS, pReq[r].method, pReq[r].ae)
        /\ \A u \in pUse[r] : u.age < CacheTTL /\ u.from = u.for

\* C30 witness: while another request is inside the handler, a request was
\* served the .gz sibling on a cached answer recorded at an earlier time,
\* the .br sibling, which it accepts too, being absent
C30_Witness ==
    /\ pPc[2] = "done" /\ pPc[1] \notin {"new", "done"}
    /\ \E u \in pUse[2] : u.for = GzSibling(AssetPath) /\ u.age > 0
    /\ BrSibling(AssetPath) \in DOMAIN sCache /\ "br" \in Range(pReq[2].ae)
    /\ pResp[2].served = GzSibling(AssetPath)
    /\ pResp[2].contentEncoding = "gzip"
    /\ BrSibling(AssetPath) \notin sFS

====
